---- MODULE Spec2Model ----
(***************************************************************************)
(* Model of natcap.invest.pollination: scenario parsing, the task graph    *)
(* that execute registers, and the calling thread's joins, reads and exit. *)
(***************************************************************************)
EXTENDS Integers, Sequences, FiniteSets, TLC

VARIABLES
    args,        \* the args dictionary and the tables/vector it points at
    env,         \* the installation: kernel source versions, getsource ok?
    run,         \* number of the current execute call on this workspace
    pc,          \* position of the calling thread in execute
    sv,          \* scenario_variables returned by _parse_scenario_variables
    prog,        \* the statements of execute still to be taken after parsing
    graph,       \* the TaskGraph object ("none" before it is constructed)
    tasks,       \* registered tasks, in add_task order
    tstate,      \* state of each registered task (by position in tasks)
    files,       \* artifact paths that exist in the workspace
    tokens,      \* persisted work tokens: identities of completed tasks
    trace,       \* calls made by execute in the current run, in order
    joined,      \* positions of the tasks a Task.join() has returned for
    invoked,     \* positions of the tasks whose callable ran in this run
    faulty,      \* the task variables whose callables raise when invoked
    history,     \* per finished run: kernel versions and task identities
    px,          \* a kernel applied to one pixel: inputs and result
    vld,         \* a call of validate: arguments and outcome
    obj,         \* two kernel objects of one class: parameters and __name__
    zone         \* a farm feature and the pixels zonal statistics finds in it

\* the variables of the kernel applications and of validate
fvars == <<px, vld, obj, zone>>

vars == <<args, env, run, pc, sv, prog, graph, tasks, tstate, files, tokens,
          trace, joined, invoked, faulty, history, fvars>>

----------------------------------------------------------------------------
(* Bounds *)

MaxSeasons == 2
MaxSubstrates == 2
MaxSpecies == 2
MaxRuns == 2

----------------------------------------------------------------------------
(* Names.  Each list is in sorted() order, so position gives the order.    *)

SeasonNames == <<"autumn", "spring", "summer", "winter">>
SubstrateNames == <<"cavity", "ground", "stem", "wood">>
SpeciesNames == <<"apis", "bombus", "osmia", "xylocopa">>

Range(seq) == {seq[i] : i \in 1..Len(seq)}

Prefix(seq, n) == {seq[i] : i \in 1..n}

\* sorted(collection): the members of S in the order of the sorted list
RECURSIVE SortedFrom(_, _, _)
SortedFrom(S, order, i) ==
    IF i > Len(order) THEN <<>>
    ELSE (IF order[i] \in S THEN <<order[i]>> ELSE <<>>)
         \o SortedFrom(S, order, i + 1)

Sorted(S, order) == SortedFrom(S, order, 1)

_INDEX_NODATA == -1
_N_WORKERS == 0

----------------------------------------------------------------------------
(* Table headers.  A header is the pattern it matches and the text the     *)
(* pattern's group captures ("" for a fixed header).                       *)

Hdr(pat, name) == [pat |-> pat, name |-> name]

_NESTING_SUBSTRATE_PATTERN == "nesting_%s_availability_index"
_FLORAL_RESOURCES_AVAILABLE_PATTERN == "floral_resources_%s_index"
_EXPECTED_BIOPHYSICAL_HEADERS ==
    <<"lucode", _NESTING_SUBSTRATE_PATTERN, _FLORAL_RESOURCES_AVAILABLE_PATTERN>>

_NESTING_SUITABILITY_PATTERN == "nesting_suitability_%s_index"
_FORAGING_ACTIVITY_RE_PATTERN == "foraging_activity_%s_index"
_RELATIVE_SPECIES_ABUNDANCE_FIELD == "relative_abundance"
_ALPHA_HEADER == "alpha"
_EXPECTED_GUILD_HEADERS ==
    <<"species", _NESTING_SUITABILITY_PATTERN, _FORAGING_ACTIVITY_RE_PATTERN,
      _ALPHA_HEADER, _RELATIVE_SPECIES_ABUNDANCE_FIELD>>

_FARM_FLORAL_RESOURCES_PATTERN == "fr_%s"
_FARM_NESTING_SUBSTRATE_RE_PATTERN == "n_%s"
_HALF_SATURATION_FARM_HEADER == "half_sat"
_CROP_POLLINATOR_DEPENDENCE_FIELD == "p_dep"
_MANAGED_POLLINATORS_FIELD == "p_managed"
_FARM_SEASON_FIELD == "season"
_EXPECTED_FARM_HEADERS ==
    <<_FARM_SEASON_FIELD, "crop_type", _HALF_SATURATION_FARM_HEADER,
      _MANAGED_POLLINATORS_FIELD, _FARM_FLORAL_RESOURCES_PATTERN,
      _FARM_NESTING_SUBSTRATE_RE_PATTERN, _CROP_POLLINATOR_DEPENDENCE_FIELD>>

\* re.findall(header, " ".join(headers)) is empty
NoMatch(pattern, headers) == \A h \in headers : h.pat # pattern

\* the first expected header without a match, 0 when all are matched
RECURSIVE FirstMissing(_, _, _)
FirstMissing(expected, headers, i) ==
    IF i > Len(expected) THEN 0
    ELSE IF NoMatch(expected[i], headers) THEN i
    ELSE FirstMissing(expected, headers, i + 1)

\* names captured by re.match(pattern, header) over a table's headers
Captured(pattern, headers) == {h.name : h \in {g \in headers : g.pat = pattern}}

----------------------------------------------------------------------------
(* _parse_scenario_variables *)

TablesGuild(a) ==
    [pat \in {"season", "substrate"} |->
        IF pat = "season"
        THEN Captured(_FORAGING_ACTIVITY_RE_PATTERN, a.guild_headers)
        ELSE Captured(_NESTING_SUITABILITY_PATTERN, a.guild_headers)]

TablesFarm(a) ==
    [pat \in {"season", "substrate"} |->
        IF ~a.farm_vector_path THEN {}
        ELSE IF pat = "season"
        THEN Captured(_FARM_FLORAL_RESOURCES_PATTERN, a.farm_headers)
        ELSE Captured(_FARM_NESTING_SUBSTRATE_RE_PATTERN, a.farm_headers)]

TablesBiophysical(a) ==
    [pat \in {"season", "substrate"} |->
        IF pat = "season"
        THEN Captured(_FLORAL_RESOURCES_AVAILABLE_PATTERN, a.biophysical_headers)
        ELSE Captured(_NESTING_SUBSTRATE_PATTERN, a.biophysical_headers)]

\* season_to_header / substrate_to_header: name -> the tables that hold it
NameToHeader(a, what) ==
    LET g == TablesGuild(a)[what]
        f == TablesFarm(a)[what]
        b == TablesBiophysical(a)[what]
    IN  [n \in g \cup f \cup b |->
            (IF n \in g THEN {"guild"} ELSE {})
            \cup (IF n \in f THEN {"farm"} ELSE {})
            \cup (IF n \in b THEN {"biophysical"} ELSE {})]

\* variant: two tables are expected whether or not a farm vector is given
MismatchedNames_TwoTables(a, what) ==
    LET m == NameToHeader(a, what)
    IN  {n \in DOMAIN m : Cardinality(m[n]) # 2}

\* the names for which the table-count test of the final loop raises
MismatchedNames(a, what) ==
    LET m == NameToHeader(a, what)
    IN  {n \in DOMAIN m :
            \/ Cardinality(m[n]) # 3 /\ a.farm_vector_path
            \/ Cardinality(m[n]) # 2 /\ ~a.farm_vector_path}

Failure(kind, table, names) ==
    [error |-> kind, table |-> table, names |-> names,
     season_list |-> <<>>, substrate_list |-> <<>>, species_list |-> <<>>,
     alpha_value |-> <<>>, species_abundance |-> <<>>,
     species_foraging_activity |-> <<>>, species_substrate_index |-> <<>>]

\* sum of f over the members of a sequence of keys
RECURSIVE SumOver(_, _, _)
SumOver(f, keys, i) ==
    IF i > Len(keys) THEN 0 ELSE f[keys[i]] + SumOver(f, keys, i + 1)

ParsedResult(a) ==
    LET season_list == Sorted(DOMAIN NameToHeader(a, "season"), SeasonNames)
        substrate_list ==
            Sorted(DOMAIN NameToHeader(a, "substrate"), SubstrateNames)
        species_list == Sorted(DOMAIN a.guild_table, SpeciesNames)
        total_relative_abundance ==
            SumOver([s \in DOMAIN a.guild_table |->
                        a.guild_table[s].relative_abundance], species_list, 1)
    IN  [error |-> "none", table |-> "", names |-> {},
         season_list |-> season_list,
         substrate_list |-> substrate_list,
         species_list |-> species_list,
         alpha_value |-> [s \in Range(species_list) |-> a.guild_table[s].alpha],
         \* quotients are kept as <<numerator, denominator>>
         species_abundance |->
            [s \in Range(species_list) |->
                <<a.guild_table[s].relative_abundance,
                  total_relative_abundance>>],
         species_foraging_activity |->
            [k \in Range(species_list) \X Range(season_list) |->
                <<a.guild_table[k[1]].foraging_activity[k[2]],
                  SumOver(a.guild_table[k[1]].foraging_activity,
                          season_list, 1)>>],
         species_substrate_index |->
            [s \in Range(species_list) |->
                [n \in Range(substrate_list) |->
                    a.guild_table[s].nesting_suitability[n]]]]

\* variant: the season fields of the farm features are not looked at
UnknownFarmSeasons_Unchecked(a) == {}

\* farm_season_set.difference(season_to_header)
UnknownFarmSeasons(a) == a.farm_seasons \ DOMAIN NameToHeader(a, "season")

_parse_scenario_variables(a) ==
    LET gm == FirstMissing(_EXPECTED_GUILD_HEADERS, a.guild_headers, 1)
        bm == FirstMissing(_EXPECTED_BIOPHYSICAL_HEADERS,
                           a.biophysical_headers, 1)
        fm == FirstMissing(_EXPECTED_FARM_HEADERS, a.farm_headers, 1)
        bad == MismatchedNames(a, "season") \cup MismatchedNames(a, "substrate")
        unknown == UnknownFarmSeasons(a)
    IN  IF gm # 0
        THEN Failure("missing_header", "guild", {_EXPECTED_GUILD_HEADERS[gm]})
        ELSE IF bm # 0
        THEN Failure("missing_header", "biophysical",
                     {_EXPECTED_BIOPHYSICAL_HEADERS[bm]})
        ELSE IF a.farm_vector_path
                /\ a.farm_geom \notin {"wkbPolygon", "wkbMultiPolygon"}
        THEN Failure("not_polygon", "farm", {})
        ELSE IF a.farm_vector_path /\ fm # 0
        THEN Failure("missing_header", "farm", {_EXPECTED_FARM_HEADERS[fm]})
        ELSE IF bad # {}
        THEN Failure("mismatch", "", bad)
        ELSE IF a.farm_vector_path /\ unknown # {}
        THEN Failure("unknown_farm_season", "farm", unknown)
        ELSE ParsedResult(a)

----------------------------------------------------------------------------
(* Artifact paths: os.path.join(directory, PATTERN % (...)).  The suffix   *)
(* of a run is fixed by args, so it is left out of the path.               *)

Path(dir, pat, a, b, n) == [dir |-> dir, pat |-> pat, a |-> a, b |-> b, n |-> n]

NoPath == Path("", "", "", "", 0)

\* the files args points at; they exist before execute is called
LandcoverRasterPath == Path("input", "landcover_raster_path", "", "", 0)
FarmVectorInputPath == Path("input", "farm_vector_path", "", "", 0)

InputFiles(a) ==
    {LandcoverRasterPath}
    \cup (IF a.farm_vector_path THEN {FarmVectorInputPath} ELSE {})

\* '%f' % alpha: alpha is held in units of 10^-7 and printed with 6 decimals
FormatF(x) == (x + 5) \div 10

\* alpha_value[species] / float(mean_pixel_size)
Alpha(a, s, species) == s.alpha_value[species] \div a.mean_pixel_size

_NESTING_SUBSTRATE_INDEX_FILEPATTERN == "nesting_substrate_index_%s%s.tif"
_FARM_NESTING_SUBSTRATE_INDEX_FILEPATTERN ==
    "farm_nesting_substrate_index_%s%s.tif"
_HABITAT_NESTING_INDEX_FILE_PATTERN == "habitat_nesting_index_%s%s.tif"
_RELATIVE_FLORAL_ABUNDANCE_INDEX_FILE_PATTERN ==
    "relative_floral_abundance_index_%s%s.tif"
_FARM_RELATIVE_FLORAL_ABUNDANCE_INDEX_FILE_PATTERN ==
    "farm_relative_floral_abundance_index_%s%s.tif"
_LOCAL_FORAGING_EFFECTIVENESS_FILE_PATTERN ==
    "local_foraging_effectiveness_%s%s.tif"
_FLORAL_RESOURCES_INDEX_FILE_PATTERN == "floral_resources_%s%s.tif"
_POLLINATOR_SUPPLY_FILE_PATTERN == "pollinator_supply_%s%s.tif"
_PROJECTED_FARM_VECTOR_FILE_PATTERN == "reprojected_farm_vector%s.shp"
_KERNEL_FILE_PATTERN == "kernel_%f%s.tif"
_POLLINATOR_ABUNDANCE_FILE_PATTERN == "pollinator_abundance_%s_%s%s.tif"
_TOTAL_POLLINATOR_ABUNDANCE_FILE_PATTERN ==
    "total_pollinator_abundance_%s%s.tif"
_FORAGED_FLOWERS_INDEX_FILE_PATTERN == "foraged_flowers_index_%s_%s%s.tif"
_CONVOLVE_PS_FILE_PATH == "convolve_ps_%s%s.tif"
_HALF_SATURATION_FILE_PATTERN == "half_saturation_%s%s.tif"
_BLANK_RASTER_FILE_PATTERN == "blank_raster%s.tif"
_FARM_POLLINATOR_SEASON_FILE_PATTERN == "farm_pollinator_%s%s.tif"
_FARM_POLLINATOR_FILE_PATTERN == "farm_pollinators%s.tif"
_MANAGED_POLLINATOR_FILE_PATTERN == "managed_pollinators%s.tif"
_TOTAL_POLLINATOR_YIELD_FILE_PATTERN == "total_pollinator_yield%s.tif"
_WILD_POLLINATOR_YIELD_FILE_PATTERN == "wild_pollinator_yield%s.tif"
_FARM_VECTOR_RESULT_FILE_PATTERN == "farm_results%s.shp"

intermediate_output_dir == "intermediate_outputs"
output_dir == "workspace_dir"

\* farm_vector_path of execute: the reprojected vector, or None
farm_vector_path == Path(intermediate_output_dir,
                         _PROJECTED_FARM_VECTOR_FILE_PATTERN, "", "", 0)

----------------------------------------------------------------------------
(* Kernel objects and the identity (__name__) they expose                  *)

KernelClasses ==
    {"_CalculateHabitatNestingIndex", "_SumRasters", "_PollinatorSupplyOp",
     "_PollinatorSupplyIndexOp", "_MultByScalar", "_OnFarmPollinatorAbundance",
     "_PYTOp", "_PYWOp"}

\* A float is kept as the quotient <<numerator, denominator>> it was computed
\* as. The decimal digits of rem / den after the point, rem < den
RECURSIVE LongDivision(_, _, _)
LongDivision(rem, den, n) ==
    IF n = 0 THEN <<>>
    ELSE <<(rem * 10) \div den>>
            \o LongDivision((rem * 10) % den, den, n - 1)

\* one added to the last of a run of digits; a carry out of the first digit
\* makes the run one digit longer
RECURSIVE RoundUp(_)
RoundUp(digits) ==
    IF digits = <<>> THEN <<1>>
    ELSE IF digits[Len(digits)] < 9
         THEN [digits EXCEPT ![Len(digits)] = @ + 1]
         ELSE RoundUp(SubSeq(digits, 1, Len(digits) - 1)) \o <<0>>

\* num / den = 0.d1d2... * 10^exp with d1 # 0
RECURSIVE Normal(_, _, _)
Normal(num, den, exp) ==
    IF num >= den THEN Normal(num, den * 10, exp + 1)
    ELSE IF num * 10 < den THEN Normal(num * 10, den, exp - 1)
    ELSE [num |-> num, den |-> den, exp |-> exp]

\* the text of a float with n significant digits ('%.<n>g'): nan for 0/0,
\* else the exponent and the digits after rounding
Significant(x, n) ==
    IF x[2] = 0 THEN [text |-> "nan", exp |-> 0, digits |-> <<>>]
    ELSE IF x[1] = 0
    THEN [text |-> "", exp |-> 0, digits |-> [i \in 1..n |-> 0]]
    ELSE LET m == Normal(x[1], x[2], 0)
             d == LongDivision(m.num, m.den, n + 1)
             r == IF d[n + 1] >= 5 THEN RoundUp(SubSeq(d, 1, n))
                  ELSE SubSeq(d, 1, n)
         IN  IF Len(r) > n
             THEN [text |-> "", exp |-> m.exp + 1, digits |-> SubSeq(r, 1, n)]
             ELSE [text |-> "", exp |-> m.exp, digits |-> r]

\* str of a float: 12 significant digits
str(x) == Significant(x, 12)

\* repr of a float, as str of a list or dict gives its members: 17
\* significant digits
repr(x) == Significant(x, 17)

\* params: the paths and numbers str()-ed into the name, in order
Kernel(hashed, cls, ver, paths, nums) ==
    [hashed |-> hashed, cls |-> cls, ver |-> ver, paths |-> paths,
     nums |-> nums]

NoKernel == Kernel(FALSE, "", 0, <<>>, <<>>)

\* hashlib.sha1(inspect.getsource(cls.__call__)).hexdigest(), or the class
\* name when getsource raises IOError; e is the installation
SourceDigest(e, cls, paths, nums) ==
    IF e.getsource THEN Kernel(TRUE, cls, e.source[cls], paths, nums)
    ELSE Kernel(FALSE, cls, 0, paths, nums)

\* substrate_path_list and the suitability scalars, both in sorted(substrate)
\* order; the name also carries the target path
_CalculateHabitatNestingIndex(e, substrate_list, substrate_path_map, species_substrate_index_map, target) ==
    SourceDigest(e, "_CalculateHabitatNestingIndex",
        [i \in 1..Len(substrate_list) |-> substrate_path_map[substrate_list[i]]]
            \o <<target>>,
        [i \in 1..Len(substrate_list) |->
            repr(<<species_substrate_index_map[substrate_list[i]], 1>>)])

\* variant: the name is the default one of the object, new in every run
_SumRasters_PerRun(e) == Kernel(FALSE, "_SumRasters", run, <<>>, <<>>)

_SumRasters(e) == SourceDigest(e, "_SumRasters", <<>>, <<>>)

_PollinatorSupplyOp(e) == SourceDigest(e, "_PollinatorSupplyOp", <<>>, <<>>)

_PollinatorSupplyIndexOp(e, species_abundance) ==
    SourceDigest(e, "_PollinatorSupplyIndexOp", <<>>,
                 <<str(species_abundance)>>)

_MultByScalar(e, scalar) ==
    SourceDigest(e, "_MultByScalar", <<>>, <<str(scalar)>>)

_OnFarmPollinatorAbundance(e) ==
    SourceDigest(e, "_OnFarmPollinatorAbundance", <<>>, <<>>)

_PYTOp(e) == SourceDigest(e, "_PYTOp", <<>>, <<>>)

_PYWOp(e) == SourceDigest(e, "_PYWOp", <<>>, <<>>)

----------------------------------------------------------------------------
(* Kernels applied to a pixel.  Every statement of a __call__ is an        *)
(* elementwise numpy operation under a boolean mask, so one pixel of each  *)
(* input array gives one pixel of the result.  Float32 values are counted  *)
(* in quarters: ONE stands for 1.0 and NoData for _INDEX_NODATA (-1.0).    *)

ONE == 4

NoData == _INDEX_NODATA * ONE

\* what numpy leaves in a pixel after a division by zero (nan or inf); no
\* other pixel of the model has this value
NaN == -(ONE * ONE * ONE)

\* a * b and a / b on values counted in quarters
Mul(a, b) == (a * b) \div ONE

Div(a, b) ==
    IF b = 0 THEN NaN
    ELSE IF b < 0 THEN (-(a * ONE)) \div (-b)
    ELSE (a * ONE) \div b

\* the pixel a kernel leaves, and the denominators it divided by there
Result(out, den) == [out |-> out, den |-> den]

\* max_op of _CalculateHabitatNestingIndex.__call__: numpy.max over the
\* stacked arrays times the suitability column; the first array masks
max_op(substrate_index_arrays, species_substrate_suitability_index_array) ==
    LET scaled == {Mul(substrate_index_arrays[i],
                       species_substrate_suitability_index_array[i]) :
                     i \in 1..Len(substrate_index_arrays)}
        result == CHOOSE m \in scaled : \A v \in scaled : v <= m
    IN  Result(IF substrate_index_arrays[1] = NoData THEN NoData ELSE result,
               {})

\* variant of __init__: the suitability scalars are listed in the reverse of
\* the order of the paths
HabitatNestingLists_Reversed(substrate_path_map, species_substrate_index_map) ==
    LET order == Sorted(DOMAIN substrate_path_map, SubstrateNames)
    IN  [substrate_path_list |->
            [i \in 1..Len(order) |-> substrate_path_map[order[i]]],
         species_substrate_suitability_index_array |->
            [i \in 1..Len(order) |->
                species_substrate_index_map[order[Len(order) + 1 - i]]]]

\* _CalculateHabitatNestingIndex.__init__: both lists follow
\* sorted(substrate_path_map)
HabitatNestingLists(substrate_path_map, species_substrate_index_map) ==
    LET order == Sorted(DOMAIN substrate_path_map, SubstrateNames)
    IN  [substrate_path_list |->
            [i \in 1..Len(order) |-> substrate_path_map[order[i]]],
         species_substrate_suitability_index_array |->
            [i \in 1..Len(order) |-> species_substrate_index_map[order[i]]]]

\* the loop of _SumRasters.__call__ from array i on: result and valid_mask
RECURSIVE SumLoop(_, _, _, _)
SumLoop(array_list, i, result, valid_mask) ==
    IF i > Len(array_list)
    THEN Result(IF valid_mask THEN result ELSE NoData, {})
    ELSE LET local_valid_mask == array_list[i] # NoData
         IN  SumLoop(array_list, i + 1,
                     IF local_valid_mask THEN result + array_list[i]
                     ELSE result,
                     valid_mask \/ local_valid_mask)

\* variant: a no-data input makes the sum no-data
SumRasters_Strict(array_list) ==
    IF \E i \in 1..Len(array_list) : array_list[i] = NoData
    THEN Result(NoData, {})
    ELSE SumLoop(array_list, 1, 0, FALSE)

_SumRasters__call__(array_list) == SumLoop(array_list, 1, 0, FALSE)

\* variant: the quotient is taken wherever foraged flowers is valid
PollinatorSupplyOp_DivideAll(foraged_flowers_array, floral_resources_array, convolve_ps_array) ==
    IF foraged_flowers_array # NoData
    THEN Result(Mul(Div(foraged_flowers_array, floral_resources_array),
                    convolve_ps_array),
                {floral_resources_array})
    ELSE Result(NoData, {})

_PollinatorSupplyOp__call__(foraged_flowers_array, floral_resources_array, convolve_ps_array) ==
    LET valid_mask == foraged_flowers_array # NoData
        zero_mask == floral_resources_array = 0
        result_mask == valid_mask /\ ~zero_mask
    IN  IF result_mask
        THEN Result(Mul(Div(foraged_flowers_array, floral_resources_array),
                        convolve_ps_array),
                    {floral_resources_array})
        ELSE IF zero_mask /\ valid_mask THEN Result(0, {})
        ELSE Result(NoData, {})

_PollinatorSupplyIndexOp__call__(species_abundance, floral_resources_array, habitat_nesting_suitability_array) ==
    LET valid_mask == floral_resources_array # NoData
    IN  IF valid_mask
        THEN Result(Mul(Mul(species_abundance, floral_resources_array),
                        habitat_nesting_suitability_array), {})
        ELSE Result(NoData, {})

_MultByScalar__call__(scalar, array) ==
    LET valid_mask == array # NoData
    IN  IF valid_mask THEN Result(Mul(array, scalar), {})
        ELSE Result(NoData, {})

_OnFarmPollinatorAbundance__call__(h_array, pat_array) ==
    LET valid_mask == h_array # NoData /\ pat_array # NoData
        denominator == Mul(h_array, ONE - 2 * pat_array) + pat_array
    IN  IF valid_mask
        THEN Result(Div(Mul(pat_array, ONE - h_array), denominator),
                    {denominator})
        ELSE Result(NoData, {})

\* variant: the sum is written as it is
PYTOp_Unclamped(mp_array, FP_array) ==
    IF mp_array # NoData THEN Result(mp_array + FP_array, {})
    ELSE Result(NoData, {})

_PYTOp__call__(mp_array, FP_array) ==
    LET valid_mask == mp_array # NoData
        result == IF valid_mask THEN mp_array + FP_array ELSE NoData
        min_mask == valid_mask /\ result > ONE
    IN  Result(IF min_mask THEN ONE ELSE result, {})

_PYWOp__call__(mp_array, PYT_array) ==
    LET valid_mask == mp_array # NoData
        result == IF valid_mask THEN PYT_array - mp_array ELSE NoData
        max_mask == valid_mask /\ result < 0
    IN  Result(IF max_mask THEN 0 ELSE result, {})

----------------------------------------------------------------------------
(* The rasters of a scenario with farms at one pixel x: one species that   *)
(* forages half of the time in each of two seasons, one substrate          *)

\* reclassify_raster: the table value of the landcover code of the pixel,
\* no-data where the landcover raster has none
reclassify_raster(landcover, value) == IF landcover THEN value ELSE NoData

\* a copy of the base raster with the attribute of the features burned on
\* the pixels they cover
_rasterize_vector_onto_base(base, covered, attribute) ==
    IF covered THEN attribute ELSE base

\* convolve_2d with mask_nodata: no-data where the signal is, else the
\* weighted sum of the neighbourhood
convolve_2d(signal, sum) == IF signal = NoData THEN NoData ELSE sum

FarmPixel(fields, x) ==
    LET seasons == <<SeasonNames[1], SeasonNames[2]>>
        blank_raster == NoData
        relative_floral_abundance(j) ==
            _rasterize_vector_onto_base(
                reclassify_raster(x.landcover, ONE), x.covered, fields.fr[j])
        foraged_flowers(j) ==
            _MultByScalar__call__(ONE \div 2, relative_floral_abundance(j)).out
        local_foraging_effectiveness ==
            _SumRasters__call__(
                [i \in 1..2 |-> foraged_flowers(seasons[i])]).out
        floral_resources ==
            convolve_2d(local_foraging_effectiveness, x.floral_resources)
        farm_nesting_substrate ==
            _rasterize_vector_onto_base(
                reclassify_raster(x.landcover, ONE), x.covered, fields.n)
        habitat_nesting == max_op(<<farm_nesting_substrate>>, <<ONE>>).out
        pollinator_supply ==
            _PollinatorSupplyIndexOp__call__(
                ONE, habitat_nesting, floral_resources).out
        convolve_ps == convolve_2d(pollinator_supply, ONE \div 2)
        pollinator_abundance(j) ==
            _PollinatorSupplyOp__call__(
                foraged_flowers(j), floral_resources, convolve_ps).out
        total_pollinator_abundance(j) ==
            _SumRasters__call__(<<pollinator_abundance(j)>>).out
        half_saturation(j) ==
            _rasterize_vector_onto_base(
                blank_raster, x.covered /\ fields.season = j, fields.h)
        farm_pollinator_season(j) ==
            _OnFarmPollinatorAbundance__call__(
                half_saturation(j), total_pollinator_abundance(j)).out
        farm_pollinator ==
            _SumRasters__call__(
                [i \in 1..2 |-> farm_pollinator_season(seasons[i])]).out
        managed_pollinator ==
            _rasterize_vector_onto_base(blank_raster, x.covered, fields.mp)
        total_pollinator_yield ==
            _PYTOp__call__(managed_pollinator, farm_pollinator).out
        wild_pollinator_yield ==
            _PYWOp__call__(managed_pollinator, total_pollinator_yield).out
    IN  [total_pollinator_yield |-> total_pollinator_yield,
         wild_pollinator_yield |-> wild_pollinator_yield,
         total_pollinator_abundance |->
            total_pollinator_abundance(fields.season)]

\* 'count' of zonal_statistics: the pixels of the feature that are not
\* no-data in the raster
ZonalCount(rasters, raster) ==
    Cardinality({i \in DOMAIN rasters : rasters[i][raster] # NoData})

----------------------------------------------------------------------------
(* validate(args, limit_to).  An argument of the model is the kind of      *)
(* value its key has: "missing" (not in args), "empty" (''), "absent" (a   *)
(* path that is not on disk), "unreadable" (a file gdal/ogr cannot open)   *)
(* or "ok"; limit_to is a key, or "None".                                  *)

ValidatedKeys ==
    <<"workspace_dir", "landcover_raster_path", "guild_table_path",
      "landcover_biophysical_table_path", "farm_vector_path">>

ValidatedPaths ==
    <<"landcover_raster_path", "guild_table_path",
      "landcover_biophysical_table_path", "farm_vector_path">>

ValidatedTypes ==
    <<[key |-> "landcover_raster_path", key_type |-> "raster"],
      [key |-> "farm_vector_path", key_type |-> "vector"]>>

ValidationError(keys, message) == [keys |-> keys, message |-> message]

Outcome(raised, validation_error_list) ==
    [raised |-> raised, validation_error_list |-> validation_error_list]

\* os.path.exists(args[key])
PathExists(a, key) == a[key] \in {"unreadable", "ok"}

\* the second loop from key i on: paths that are not found on disk
RECURSIVE NotFoundErrors(_, _, _)
NotFoundErrors(a, limit_to, i) ==
    IF i > Len(ValidatedPaths) THEN <<>>
    ELSE LET key == ValidatedPaths[i]
         IN  (IF (limit_to = "None" \/ limit_to = key) /\ ~PathExists(a, key)
              THEN <<ValidationError(<<key>>, "not found on disk")>>
              ELSE <<>>)
             \o NotFoundErrors(a, limit_to, i + 1)

\* the third loop from pair i on: files of the wrong type
RECURSIVE TypeErrors(_, _, _)
TypeErrors(a, limit_to, i) ==
    IF i > Len(ValidatedTypes) THEN <<>>
    ELSE LET key == ValidatedTypes[i].key
             key_type == ValidatedTypes[i].key_type
         IN  (IF (limit_to = "None" \/ limit_to = key) /\ a[key] # "missing"
              THEN IF ~PathExists(a, key)
                   THEN <<ValidationError(<<key>>, "not found on disk")>>
                   ELSE IF a[key] = "unreadable"
                   THEN <<ValidationError(<<key>>, "not a " \o key_type)>>
                   ELSE <<>>
              ELSE <<>>)
             \o TypeErrors(a, limit_to, i + 1)

validate(a, limit_to) ==
    LET Chosen(key) == limit_to = "None" \/ limit_to = key
        Missing(key) == Chosen(key) /\ a[key] = "missing"
        NoValue(key) == Chosen(key) /\ a[key] = "empty"
        missing_key_list == SelectSeq(ValidatedKeys, Missing)
        no_value_list == SelectSeq(ValidatedKeys, NoValue)
    IN  IF missing_key_list # <<>> THEN Outcome("KeyError", <<>>)
        ELSE Outcome("",
                (IF no_value_list # <<>>
                 THEN <<ValidationError(no_value_list,
                                        "parameter has no value")>>
                 ELSE <<>>)
                \o NotFoundErrors(a, limit_to, 1)
                \o TypeErrors(a, limit_to, 1))

----------------------------------------------------------------------------
(* One application of a kernel to a pixel, and one call of validate        *)

\* op: the kernel class; in: the pixel of each input array; par: the scalars
\* of the closure; N, ns: the two maps of _CalculateHabitatNestingIndex
Pixel(op, in, par, N, ns) ==
    [op |-> op, in |-> in, par |-> par, N |-> N, ns |-> ns, out |-> 0,
     den |-> {}, done |-> FALSE]

NoPixel == Pixel("", <<>>, <<>>, <<>>, <<>>)

Validation(a, limit_to) ==
    [args |-> a, limit_to |-> limit_to, done |-> FALSE,
     result |-> Outcome("", <<>>)]

NoValidation == Validation(<<>>, "None")

\* cls: the kernel class; params: the constructor arguments of the two
\* objects; names: the __name__ of each once constructed
Objects(cls, params) == [cls |-> cls, params |-> params, names |-> <<>>]

NoObjects == Objects("", <<>>)

\* fields: the attributes of a farm feature; pixels: what each pixel of the
\* landcover grid inside the feature holds; rasters: the pixels of the yield
\* and abundance rasters; counts: the 'count' of zonal_statistics; divisors:
\* what the aggregation divided by
Zone(fields, pixels) ==
    [fields |-> fields, pixels |-> pixels, stage |-> "tasks",
     rasters |-> <<>>, counts |-> <<>>, divisors |-> {}]

NoZone == [Zone(<<>>, <<>>) EXCEPT !.stage = ""]

----------------------------------------------------------------------------
(* Tasks and the statements of execute                                     *)

Label(k, a, b) == [k |-> k, a |-> a, b |-> b]

\* one add_task call: func, its args (input paths, kernel object, scalar and
\* keyword arguments), target_path_list and dependent_task_list; reads are
\* the task-produced or input files the callable opens
Task(label, func, kernel, inputs, scalar, extra, target, deps) ==
    [label |-> label, func |-> func, kernel |-> kernel, inputs |-> inputs,
     scalar |-> scalar, extra |-> extra, target |-> target, deps |-> deps]

NoTask == Task(Label("", "", ""), "", NoKernel, <<>>, 0, <<>>, NoPath, {})

\* the files a task's callable opens for reading: its path arguments, or the
\* substrate_path_list held by a habitat nesting object
Reads(t) ==
    IF t.kernel.cls = "_CalculateHabitatNestingIndex"
    THEN {t.kernel.paths[i] : i \in 1..Len(t.kernel.paths) - 1}
    ELSE Range(t.inputs)

AddTaskStmt(t) ==
    [op |-> "add_task", task |-> t, ref |-> t.label, name |-> "",
     reads |-> {}, writes |-> {}, removes |-> {}]

TaskJoinStmt(label) ==
    [op |-> "task_join", task |-> NoTask, ref |-> label, name |-> "",
     reads |-> {}, writes |-> {}, removes |-> {}]

CallStmt(name, reads, writes, removes) ==
    [op |-> "call", task |-> NoTask, ref |-> Label("", "", ""), name |-> name,
     reads |-> reads, writes |-> writes, removes |-> removes]

GraphStmt(op) ==
    [op |-> op, task |-> NoTask, ref |-> Label("", "", ""), name |-> "",
     reads |-> {}, writes |-> {}, removes |-> {}]

RECURSIVE Concat(_, _)
Concat(seqs, i) ==
    IF i > Len(seqs) THEN <<>> ELSE seqs[i] \o Concat(seqs, i + 1)

----------------------------------------------------------------------------
(* execute: the statements after the TaskGraph is constructed, for args a, *)
(* installation e and scenario variables s                                 *)

ReprojectFarmLabel == Label("reproject_farm_task", "", "")

\* if farm_vector_path is not None: reproject_farm_task
ReprojectFarmStmts(a, e, s) ==
    IF a.farm_vector_path
    THEN <<AddTaskStmt(Task(ReprojectFarmLabel,
                "pygeoprocessing.reproject_vector", NoKernel,
                <<FarmVectorInputPath>>, 0, <<"projection">>,
                farm_vector_path, {}))>>
    ELSE <<>>

nesting_substrate_index_path(substrate) ==
    Path(intermediate_output_dir, _NESTING_SUBSTRATE_INDEX_FILEPATTERN,
         substrate, "", 0)

\* landcover_substrate_index_tasks[substrate]
SubstrateIndexStmts(a, e, s) ==
    [i \in 1..Len(s.substrate_list) |->
        LET substrate == s.substrate_list[i]
        IN  AddTaskStmt(Task(
                Label("landcover_substrate_index_tasks", substrate, ""),
                "pygeoprocessing.reclassify_raster", NoKernel,
                <<LandcoverRasterPath>>, 0,
                <<"landcover_substrate_index", substrate, "values_required">>,
                nesting_substrate_index_path(substrate), {}))]

farm_nesting_substrate_index_path(substrate) ==
    Path(intermediate_output_dir, _FARM_NESTING_SUBSTRATE_INDEX_FILEPATTERN,
         substrate, "", 0)

\* farm_substrate_rasterize_task_list
FarmSubstrateStmts(a, e, s) ==
    IF a.farm_vector_path
    THEN [i \in 1..Len(s.substrate_list) |->
            LET substrate == s.substrate_list[i]
            IN  AddTaskStmt(Task(
                    Label("farm_substrate_rasterize_task_list", substrate, ""),
                    "_rasterize_vector_onto_base", NoKernel,
                    <<nesting_substrate_index_path(substrate),
                      farm_vector_path>>, 0,
                    <<_FARM_NESTING_SUBSTRATE_RE_PATTERN, substrate>>,
                    farm_nesting_substrate_index_path(substrate),
                    {Label("landcover_substrate_index_tasks", substrate, ""),
                     ReprojectFarmLabel}))]
    ELSE <<>>

habitat_nesting_index_path(species) ==
    Path(intermediate_output_dir, _HABITAT_NESTING_INDEX_FILE_PATTERN,
         species, "", 0)

\* habitat_nesting_tasks[species]
HabitatNestingStmts(a, e, s) ==
    [i \in 1..Len(s.species_list) |->
        LET species == s.species_list[i]
            dependent_task_list ==
                IF a.farm_vector_path
                THEN {Label("farm_substrate_rasterize_task_list", n, "") :
                        n \in Range(s.substrate_list)}
                ELSE {Label("landcover_substrate_index_tasks", n, "") :
                        n \in Range(s.substrate_list)}
            substrate_path_map ==
                IF a.farm_vector_path
                THEN [n \in Range(s.substrate_list) |->
                        farm_nesting_substrate_index_path(n)]
                ELSE [n \in Range(s.substrate_list) |->
                        nesting_substrate_index_path(n)]
        IN  AddTaskStmt(Task(
                Label("habitat_nesting_tasks", species, ""),
                "calculate_habitat_nesting_index_op",
                _CalculateHabitatNestingIndex(
                    e, s.substrate_list, substrate_path_map,
                    s.species_substrate_index[species],
                    habitat_nesting_index_path(species)),
                <<>>, 0, <<>>,
                habitat_nesting_index_path(species), dependent_task_list))]

relative_floral_abundance_index_path(season) ==
    Path(intermediate_output_dir, _RELATIVE_FLORAL_ABUNDANCE_INDEX_FILE_PATTERN,
         season, "", 0)

farm_relative_floral_abundance_index_path(season) ==
    Path(intermediate_output_dir,
         _FARM_RELATIVE_FLORAL_ABUNDANCE_INDEX_FILE_PATTERN, season, "", 0)

\* relative_floral_abudance_task, overridden by the farm rasterization
FloralAbundanceStmts(a, e, s) ==
    Concat([i \in 1..Len(s.season_list) |->
        LET season == s.season_list[i]
        IN  <<AddTaskStmt(Task(
                Label("relative_floral_abudance_task", season, ""),
                "pygeoprocessing.reclassify_raster", NoKernel,
                <<LandcoverRasterPath>>, 0,
                <<"landcover_floral_resources", season, "values_required">>,
                relative_floral_abundance_index_path(season), {}))>>
            \o (IF a.farm_vector_path
                THEN <<AddTaskStmt(Task(
                        Label("relative_floral_abudance_task", season, "farm"),
                        "_rasterize_vector_onto_base", NoKernel,
                        <<relative_floral_abundance_index_path(season),
                          farm_vector_path>>, 0,
                        <<_FARM_FLORAL_RESOURCES_PATTERN, season>>,
                        farm_relative_floral_abundance_index_path(season),
                        {Label("relative_floral_abudance_task", season, ""),
                         ReprojectFarmLabel}))>>
                ELSE <<>>)], 1)

\* scenario_variables['relative_floral_abundance_index_path'][season]
relative_abundance_path(a, season) ==
    IF a.farm_vector_path
    THEN farm_relative_floral_abundance_index_path(season)
    ELSE relative_floral_abundance_index_path(season)

\* variant: the map keeps the reclassification task of the season
relative_floral_abudance_task_map_Base(a, season) ==
    Label("relative_floral_abudance_task", season, "")

\* relative_floral_abudance_task_map[season]
relative_floral_abudance_task_map(a, season) ==
    Label("relative_floral_abudance_task", season,
          IF a.farm_vector_path THEN "farm" ELSE "")

foraged_flowers_index_path(species, season) ==
    Path(intermediate_output_dir, _FORAGED_FLOWERS_INDEX_FILE_PATTERN,
         species, season, 0)

\* foraged_flowers_index_task_map[(species, season)]
ForagedFlowersStmts(a, e, s) ==
    Concat([i \in 1..Len(s.species_list) |->
        [j \in 1..Len(s.season_list) |->
            LET species == s.species_list[i]
                season == s.season_list[j]
            IN  AddTaskStmt(Task(
                    Label("foraged_flowers_index_task_map", species, season),
                    "pygeoprocessing.raster_calculator",
                    _MultByScalar(
                        e, s.species_foraging_activity[<<species, season>>]),
                    <<relative_abundance_path(a, season)>>, 0, <<>>,
                    foraged_flowers_index_path(species, season),
                    {relative_floral_abudance_task_map(a, season)}))]], 1)

local_foraging_effectiveness_path(species) ==
    Path(intermediate_output_dir, _LOCAL_FORAGING_EFFECTIVENESS_FILE_PATTERN,
         species, "", 0)

kernel_path(alpha) ==
    Path(intermediate_output_dir, _KERNEL_FILE_PATTERN, "", "", FormatF(alpha))

floral_resources_index_path(species) ==
    Path(intermediate_output_dir, _FLORAL_RESOURCES_INDEX_FILE_PATTERN,
         species, "", 0)

pollinator_supply_index_path(species) ==
    Path(output_dir, _POLLINATOR_SUPPLY_FILE_PATTERN, species, "", 0)

convolve_ps_path(species) ==
    Path(intermediate_output_dir, _CONVOLVE_PS_FILE_PATH, species, "", 0)

pollinator_abundance_path(species, season) ==
    Path(output_dir, _POLLINATOR_ABUNDANCE_FILE_PATTERN, species, season, 0)

\* local_foraging_effectiveness_task of one species
LocalForagingEffectivenessStmt(a, e, s, species) ==
    AddTaskStmt(Task(
        Label("local_foraging_effectiveness_task", species, ""),
        "pygeoprocessing.raster_calculator", _SumRasters(e),
        [j \in 1..Len(s.season_list) |->
            foraged_flowers_index_path(species, s.season_list[j])],
        0, <<>>,
        local_foraging_effectiveness_path(species),
        {Label("foraged_flowers_index_task_map", species, season) :
            season \in Range(s.season_list)}))

\* alpha_kernel_raster_task of one species
AlphaKernelStmt(a, e, s, species) ==
    AddTaskStmt(Task(
        Label("alpha_kernel_raster_task", species, ""),
        "utils.exponential_decay_kernel_raster", NoKernel,
        <<>>, Alpha(a, s, species), <<>>,
        kernel_path(Alpha(a, s, species)), {}))

\* floral_resources_task of one species
FloralResourcesStmt(a, e, s, species) ==
    AddTaskStmt(Task(
        Label("floral_resources_task", species, ""),
        "pygeoprocessing.convolve_2d", NoKernel,
        <<local_foraging_effectiveness_path(species),
          kernel_path(Alpha(a, s, species))>>, 0,
        <<"ignore_nodata", "mask_nodata">>,
        floral_resources_index_path(species),
        {Label("alpha_kernel_raster_task", species, ""),
         Label("local_foraging_effectiveness_task", species, "")}))

\* pollinator_supply_task of one species
PollinatorSupplyStmt(a, e, s, species) ==
    AddTaskStmt(Task(
        Label("pollinator_supply_task", species, ""),
        "pygeoprocessing.raster_calculator",
        _PollinatorSupplyIndexOp(e, s.species_abundance[species]),
        <<habitat_nesting_index_path(species),
          floral_resources_index_path(species)>>, 0, <<>>,
        pollinator_supply_index_path(species),
        {Label("floral_resources_task", species, ""),
         Label("habitat_nesting_tasks", species, "")}))

\* convolve_ps_task of one species
ConvolvePsStmt(a, e, s, species) ==
    AddTaskStmt(Task(
        Label("convolve_ps_task", species, ""),
        "pygeoprocessing.convolve_2d", NoKernel,
        <<pollinator_supply_index_path(species),
          kernel_path(Alpha(a, s, species))>>, 0,
        <<"ignore_nodata", "mask_nodata">>,
        convolve_ps_path(species),
        {Label("alpha_kernel_raster_task", species, ""),
         Label("pollinator_supply_task", species, "")}))

\* pollinator_abundance_task_map[(species, season)] of one species
PollinatorAbundanceStmts(a, e, s, species) ==
    [j \in 1..Len(s.season_list) |->
        LET season == s.season_list[j]
        IN  AddTaskStmt(Task(
                Label("pollinator_abundance_task_map", species, season),
                "pygeoprocessing.raster_calculator", _PollinatorSupplyOp(e),
                <<foraged_flowers_index_path(species, season),
                  floral_resources_index_path(species),
                  convolve_ps_path(species)>>, 0, <<>>,
                pollinator_abundance_path(species, season),
                {Label("foraged_flowers_index_task_map", species, season),
                 Label("floral_resources_task", species, ""),
                 Label("convolve_ps_task", species, "")}))]

\* the body of the second loop over species_list
SpeciesStmts(a, e, s) ==
    Concat([i \in 1..Len(s.species_list) |->
        LET species == s.species_list[i]
        IN  <<LocalForagingEffectivenessStmt(a, e, s, species),
              AlphaKernelStmt(a, e, s, species),
              FloralResourcesStmt(a, e, s, species),
              PollinatorSupplyStmt(a, e, s, species),
              ConvolvePsStmt(a, e, s, species)>>
            \o PollinatorAbundanceStmts(a, e, s, species)], 1)

\* task_graph.close(); task_graph.join(); return
CloseJoinReturn == <<GraphStmt("close"), GraphStmt("join"), GraphStmt("return")>>

\* variant: the exit without a farm vector does not join
NoFarmExitStmts_NoJoin(a, e, s) == <<GraphStmt("close"), GraphStmt("return")>>

\* if farm_vector_path is None: close, join, return
NoFarmExitStmts(a, e, s) == CloseJoinReturn

blank_raster_path ==
    Path(intermediate_output_dir, _BLANK_RASTER_FILE_PATTERN, "", "", 0)

BlankRasterStmts(a, e, s) ==
    <<AddTaskStmt(Task(
        Label("blank_raster_task", "", ""),
        "pygeoprocessing.new_raster_from_base", NoKernel,
        <<LandcoverRasterPath>>, 0, <<"fill_value_list">>,
        blank_raster_path, {}))>>

total_pollinator_abundance_index_path(season) ==
    Path(output_dir, _TOTAL_POLLINATOR_ABUNDANCE_FILE_PATTERN, season, "", 0)

half_saturation_raster_path(season) ==
    Path(intermediate_output_dir, _HALF_SATURATION_FILE_PATTERN, season, "", 0)

farm_pollinator_season_path(season) ==
    Path(intermediate_output_dir, _FARM_POLLINATOR_SEASON_FILE_PATTERN,
         season, "", 0)

\* total_pollinator_abundance_task[season]
TotalPollinatorAbundanceStmt(a, e, s, season) ==
    AddTaskStmt(Task(
        Label("total_pollinator_abundance_task", season, ""),
        "pygeoprocessing.raster_calculator", _SumRasters(e),
        [i \in 1..Len(s.species_list) |->
            pollinator_abundance_path(s.species_list[i], season)],
        0, <<>>,
        total_pollinator_abundance_index_path(season),
        {Label("pollinator_abundance_task_map", species, season) :
            species \in Range(s.species_list)}))

\* half_saturation_task of one season
HalfSaturationStmt(a, e, s, season) ==
    AddTaskStmt(Task(
        Label("half_saturation_task", season, ""),
        "_rasterize_vector_onto_base", NoKernel,
        <<blank_raster_path, farm_vector_path>>, 0,
        <<_HALF_SATURATION_FARM_HEADER, "filter_string", season>>,
        half_saturation_raster_path(season),
        {Label("blank_raster_task", "", "")}))

\* the entry appended to farm_pollinator_season_task_list for one season
FarmPollinatorSeasonStmt(a, e, s, season) ==
    AddTaskStmt(Task(
        Label("farm_pollinator_season_task_list", season, ""),
        "pygeoprocessing.raster_calculator", _OnFarmPollinatorAbundance(e),
        <<half_saturation_raster_path(season),
          total_pollinator_abundance_index_path(season)>>, 0, <<>>,
        farm_pollinator_season_path(season),
        {Label("half_saturation_task", season, ""),
         Label("total_pollinator_abundance_task", season, "")}))

\* the loop over season_list of the farm part
SeasonFarmStmts(a, e, s) ==
    Concat([j \in 1..Len(s.season_list) |->
        LET season == s.season_list[j]
        IN  <<TotalPollinatorAbundanceStmt(a, e, s, season),
              HalfSaturationStmt(a, e, s, season),
              FarmPollinatorSeasonStmt(a, e, s, season)>>], 1)

farm_pollinator_path ==
    Path(output_dir, _FARM_POLLINATOR_FILE_PATTERN, "", "", 0)

managed_pollinator_path ==
    Path(intermediate_output_dir, _MANAGED_POLLINATOR_FILE_PATTERN, "", "", 0)

total_pollinator_yield_path ==
    Path(output_dir, _TOTAL_POLLINATOR_YIELD_FILE_PATTERN, "", "", 0)

wild_pollinator_yield_path ==
    Path(output_dir, _WILD_POLLINATOR_YIELD_FILE_PATTERN, "", "", 0)

\* farm_pollinator_task
FarmPollinatorStmt(a, e, s) ==
    AddTaskStmt(Task(
        Label("farm_pollinator_task", "", ""),
        "pygeoprocessing.raster_calculator", _SumRasters(e),
        [j \in 1..Len(s.season_list) |->
            farm_pollinator_season_path(s.season_list[j])],
        0, <<>>,
        farm_pollinator_path,
        {Label("farm_pollinator_season_task_list", season, "") :
            season \in Range(s.season_list)}))

\* managed_pollinator_task
ManagedPollinatorStmt(a, e, s) ==
    AddTaskStmt(Task(
        Label("managed_pollinator_task", "", ""),
        "_rasterize_vector_onto_base", NoKernel,
        <<blank_raster_path, farm_vector_path>>, 0,
        <<_MANAGED_POLLINATORS_FIELD>>,
        managed_pollinator_path,
        {ReprojectFarmLabel}))

\* pyt_task
PytStmt(a, e, s) ==
    AddTaskStmt(Task(
        Label("pyt_task", "", ""),
        "pygeoprocessing.raster_calculator", _PYTOp(e),
        <<managed_pollinator_path, farm_pollinator_path>>, 0, <<>>,
        total_pollinator_yield_path,
        {Label("farm_pollinator_task", "", ""),
         Label("managed_pollinator_task", "", "")}))

\* wild_pollinator_task
WildPollinatorStmt(a, e, s) ==
    AddTaskStmt(Task(
        Label("wild_pollinator_task", "", ""),
        "pygeoprocessing.raster_calculator", _PYWOp(e),
        <<managed_pollinator_path, total_pollinator_yield_path>>, 0, <<>>,
        wild_pollinator_yield_path,
        {Label("pyt_task", "", ""),
         Label("managed_pollinator_task", "", "")}))

FarmYieldStmts(a, e, s) ==
    <<FarmPollinatorStmt(a, e, s), ManagedPollinatorStmt(a, e, s),
      PytStmt(a, e, s), WildPollinatorStmt(a, e, s)>>

target_farm_result_path ==
    Path(output_dir, _FARM_VECTOR_RESULT_FILE_PATTERN, "", "", 0)

\* remove an old result vector, then copy the reprojected farm vector
FarmResultVectorStmts(a, e, s) ==
    <<CallStmt("os.remove", {}, {}, {target_farm_result_path}),
      TaskJoinStmt(ReprojectFarmLabel),
      CallStmt("_create_farm_result_vector", {farm_vector_path},
               {target_farm_result_path}, {})>>

\* variant: the wild yield raster is read without joining its task
YieldZonalStmts_NoWildJoin(a, e, s) ==
    <<CallStmt("pygeoprocessing.zonal_statistics",
               {wild_pollinator_yield_path, target_farm_result_path}, {}, {}),
      TaskJoinStmt(Label("pyt_task", "", "")),
      CallStmt("pygeoprocessing.zonal_statistics",
               {total_pollinator_yield_path, target_farm_result_path}, {}, {})>>

\* zonal statistics of the wild and the total pollinator yield
YieldZonalStmts(a, e, s) ==
    <<TaskJoinStmt(Label("wild_pollinator_task", "", "")),
      CallStmt("pygeoprocessing.zonal_statistics",
               {wild_pollinator_yield_path, target_farm_result_path}, {}, {}),
      TaskJoinStmt(Label("pyt_task", "", "")),
      CallStmt("pygeoprocessing.zonal_statistics",
               {total_pollinator_yield_path, target_farm_result_path}, {}, {})>>

\* zonal statistics of the total pollinator abundance of each season
AbundanceZonalStmts(a, e, s) ==
    Concat([j \in 1..Len(s.season_list) |->
        LET season == s.season_list[j]
        IN  <<TaskJoinStmt(Label("total_pollinator_abundance_task", season, "")),
              CallStmt("pygeoprocessing.zonal_statistics",
                       {total_pollinator_abundance_index_path(season),
                        target_farm_result_path}, {}, {})>>], 1)

\* the loop over the features of the result vector and SyncToDisk
AggregateFarmStmts(a, e, s) ==
    <<CallStmt("aggregate results per farm", {target_farm_result_path},
               {target_farm_result_path}, {})>>

\* variant: the final join precedes close
FinalStmts_JoinFirst(a, e, s) ==
    <<GraphStmt("join"), GraphStmt("close"), GraphStmt("return")>>

\* task_graph.close(); task_graph.join() at the end of execute
FinalStmts(a, e, s) == CloseJoinReturn

\* the statements of execute from the first add_task to its return
Program(a, e, s) ==
    ReprojectFarmStmts(a, e, s)
    \o SubstrateIndexStmts(a, e, s)
    \o FarmSubstrateStmts(a, e, s)
    \o HabitatNestingStmts(a, e, s)
    \o FloralAbundanceStmts(a, e, s)
    \o ForagedFlowersStmts(a, e, s)
    \o SpeciesStmts(a, e, s)
    \o (IF ~a.farm_vector_path
        THEN NoFarmExitStmts(a, e, s)
        ELSE BlankRasterStmts(a, e, s)
             \o SeasonFarmStmts(a, e, s)
             \o FarmYieldStmts(a, e, s)
             \o FarmResultVectorStmts(a, e, s)
             \o YieldZonalStmts(a, e, s)
             \o AbundanceZonalStmts(a, e, s)
             \o AggregateFarmStmts(a, e, s)
             \o FinalStmts(a, e, s))

----------------------------------------------------------------------------
(* TaskGraph: registration, memoization and synchronous execution          *)

\* what a work token records of a task: callable, arguments and targets
Identity(t) ==
    [func |-> t.func, kernel |-> t.kernel, inputs |-> t.inputs,
     scalar |-> t.scalar, extra |-> t.extra, target |-> t.target]

Registered(label) == \E i \in 1..Len(tasks) : tasks[i].label = label

\* the handle a task variable of execute holds
Handle(label) == CHOOSE i \in 1..Len(tasks) : tasks[i].label = label

\* dependent_task_list closed under the dependencies of its members
RECURSIVE Ancestors(_, _)
Ancestors(ts, i) ==
    LET direct == {j \in 1..Len(ts) : ts[j].label \in ts[i].deps}
    IN  direct \cup UNION {Ancestors(ts, j) : j \in direct \cap 1..(i - 1)}

\* the registered tasks that declare path as their target
Producers(ts, path) == {j \in 1..Len(ts) : ts[j].target = path}

\* the statement the calling thread is at
Stmt == Head(prog)

AtStmt(op) == pc = "body" /\ prog # <<>> /\ Head(prog).op = op

NoScenario == Failure("unparsed", "", {})

----------------------------------------------------------------------------
(* Actions of the calling thread                                           *)

\* variant: the result of parsing is not looked at before the graph is built
Parse_Unchecked ==
    /\ pc = "start"
    /\ sv' = _parse_scenario_variables(args)
    /\ pc' = "parsed"
    /\ UNCHANGED <<fvars, args, env, run, prog, graph, tasks, tstate, files, tokens,
                   trace, joined, invoked, faulty, history>>

\* scenario_variables = _parse_scenario_variables(args); a ValueError leaves
\* execute
Parse ==
    /\ pc = "start"
    /\ sv' = _parse_scenario_variables(args)
    /\ pc' = IF sv'.error = "none" THEN "parsed" ELSE "raised"
    /\ UNCHANGED <<fvars, args, env, run, prog, graph, tasks, tstate, files, tokens,
                   trace, joined, invoked, faulty, history>>

\* task_graph = taskgraph.TaskGraph(work_token_dir, _N_WORKERS)
ConstructTaskGraph ==
    /\ pc = "parsed"
    /\ graph' = "open"
    /\ prog' = Program(args, env, sv)
    /\ pc' = "body"
    /\ UNCHANGED <<fvars, args, env, run, sv, tasks, tstate, files, tokens, trace,
                   joined, invoked, faulty, history>>

Register(t, state) ==
    /\ tasks' = Append(tasks, t)
    /\ tstate' = Append(tstate, state)
    /\ trace' = Append(trace, "add_task")
    /\ prog' = Tail(prog)

CacheHit(t) == Identity(t) \in tokens /\ t.target \in files

\* variant: the state of the dependencies is not looked at
DependencyFailed_Never(t) == FALSE

DependencyFailed(t) ==
    \E d \in t.deps : Registered(d) /\ tstate[Handle(d)] = "Failed"

\* the callable raises: one of its inputs is missing or it is faulty
Raises(t) == ~(Reads(t) \subseteq files) \/ t.label.k \in faulty

\* add_task of a task whose token and targets exist: Completed, not invoked
AddTaskCached ==
    /\ AtStmt("add_task") /\ graph = "open"
    /\ CacheHit(Stmt.task)
    /\ Register(Stmt.task, "Completed")
    /\ UNCHANGED <<fvars, args, env, run, sv, pc, graph, files, tokens, joined,
                   invoked, faulty, history>>

\* add_task of a task with a failed dependency: Failed, not invoked
AddTaskSkipped ==
    /\ AtStmt("add_task") /\ graph = "open"
    /\ ~CacheHit(Stmt.task)
    /\ DependencyFailed(Stmt.task)
    /\ Register(Stmt.task, "Failed")
    /\ UNCHANGED <<fvars, args, env, run, sv, pc, graph, files, tokens, joined,
                   invoked, faulty, history>>

\* add_task with zero workers: the callable runs to completion at once
AddTaskRun ==
    /\ AtStmt("add_task") /\ graph = "open"
    /\ ~CacheHit(Stmt.task)
    /\ ~DependencyFailed(Stmt.task)
    /\ ~Raises(Stmt.task)
    /\ Register(Stmt.task, "Completed")
    /\ invoked' = invoked \cup {Len(tasks) + 1}
    /\ files' = files \cup {Stmt.task.target}
    /\ tokens' = tokens \cup {Identity(Stmt.task)}
    /\ UNCHANGED <<fvars, args, env, run, sv, pc, graph, joined, faulty, history>>

\* add_task with zero workers: the callable raises, the task is Failed
AddTaskRaise ==
    /\ AtStmt("add_task") /\ graph = "open"
    /\ ~CacheHit(Stmt.task)
    /\ ~DependencyFailed(Stmt.task)
    /\ Raises(Stmt.task)
    /\ Register(Stmt.task, "Failed")
    /\ invoked' = invoked \cup {Len(tasks) + 1}
    /\ UNCHANGED <<fvars, args, env, run, sv, pc, graph, files, tokens, joined,
                   faulty, history>>

\* some_task.join(): returns once the task is Completed
TaskJoin ==
    /\ AtStmt("task_join")
    /\ tstate[Handle(Stmt.ref)] = "Completed"
    /\ joined' = joined \cup {Handle(Stmt.ref)}
    /\ trace' = Append(trace, "task.join")
    /\ prog' = Tail(prog)
    /\ UNCHANGED <<fvars, args, env, run, sv, pc, graph, tasks, tstate, files,
                   tokens, invoked, faulty, history>>

\* some_task.join() on a Failed task surfaces the failure to the caller
TaskJoinRaise ==
    /\ AtStmt("task_join")
    /\ tstate[Handle(Stmt.ref)] = "Failed"
    /\ trace' = Append(trace, "task.join")
    /\ pc' = "raised"
    /\ UNCHANGED <<fvars, args, env, run, sv, prog, graph, tasks, tstate, files,
                   tokens, joined, invoked, faulty, history>>

\* a direct call of the calling thread on files of the workspace
Call ==
    /\ AtStmt("call")
    /\ IF Stmt.reads \subseteq files
       THEN /\ files' = (files \ Stmt.removes) \cup Stmt.writes
            /\ prog' = Tail(prog)
            /\ pc' = pc
       ELSE /\ files' = files
            /\ prog' = prog
            /\ pc' = "raised"
    /\ trace' = Append(trace, Stmt.name)
    /\ UNCHANGED <<fvars, args, env, run, sv, graph, tasks, tstate, tokens,
                   joined, invoked, faulty, history>>

\* task_graph.close()
Close ==
    /\ AtStmt("close")
    /\ graph' = "closed"
    /\ trace' = Append(trace, "close")
    /\ prog' = Tail(prog)
    /\ UNCHANGED <<fvars, args, env, run, sv, pc, tasks, tstate, files, tokens,
                   joined, invoked, faulty, history>>

AnyFailed == \E i \in 1..Len(tasks) : tstate[i] = "Failed"

\* task_graph.join(): returns when every registered task is Completed
JoinAll ==
    /\ AtStmt("join")
    /\ ~AnyFailed
    /\ trace' = Append(trace, "join")
    /\ prog' = Tail(prog)
    /\ UNCHANGED <<fvars, args, env, run, sv, pc, graph, tasks, tstate, files,
                   tokens, joined, invoked, faulty, history>>

\* task_graph.join() surfaces the failure of a task
JoinAllRaise ==
    /\ AtStmt("join")
    /\ AnyFailed
    /\ trace' = Append(trace, "join")
    /\ pc' = "raised"
    /\ UNCHANGED <<fvars, args, env, run, sv, prog, graph, tasks, tstate, files,
                   tokens, joined, invoked, faulty, history>>

\* return from execute
Return ==
    /\ AtStmt("return")
    /\ pc' = "returned"
    /\ history' = Append(history,
            [source |-> env.source,
             ids |-> [i \in 1..Len(tasks) |-> Identity(tasks[i])]])
    /\ UNCHANGED <<fvars, args, env, run, sv, prog, graph, tasks, tstate, files,
                   tokens, trace, joined, invoked, faulty>>

InitialSource == [c \in KernelClasses |-> 1]

\* the installations that differ from e in the __call__ source of at most one
\* kernel class
Edited(e) ==
    {e} \cup {[e EXCEPT !.source[c] = e.source[c] + 1] :
                c \in {k \in KernelClasses : e.source = InitialSource}}

\* execute is called again with the same args on the workspace it left
Rerun ==
    /\ pc = "returned"
    /\ run < MaxRuns
    /\ run' = run + 1
    /\ env' \in Edited(env)
    /\ pc' = "start"
    /\ sv' = NoScenario
    /\ prog' = <<>>
    /\ graph' = "none"
    /\ tasks' = <<>>
    /\ tstate' = <<>>
    /\ trace' = <<>>
    /\ joined' = {}
    /\ invoked' = {}
    /\ UNCHANGED <<fvars, args, files, tokens, faulty, history>>

Next ==
    \/ Parse
    \/ ConstructTaskGraph
    \/ AddTaskCached
    \/ AddTaskSkipped
    \/ AddTaskRun
    \/ AddTaskRaise
    \/ TaskJoin
    \/ TaskJoinRaise
    \/ Call
    \/ Close
    \/ JoinAll
    \/ JoinAllRaise
    \/ Return
    \/ Rerun

----------------------------------------------------------------------------
(* Initial states: the inputs execute is called with                       *)

\* flight distances in units of 10^-7 pixel-size multiples: two that differ
\* only past the sixth decimal of alpha, and one that differs before it
AlphaValues == {20000000, 20000004, 40000000}

MeanPixelSizes == {2}

GuildHeaders(seasons, substrates, dropped) ==
    ({Hdr("species", ""), Hdr(_ALPHA_HEADER, ""),
      Hdr(_RELATIVE_SPECIES_ABUNDANCE_FIELD, "")} \ {Hdr(dropped, "")})
    \cup {Hdr(_FORAGING_ACTIVITY_RE_PATTERN, n) : n \in seasons}
    \cup {Hdr(_NESTING_SUITABILITY_PATTERN, n) : n \in substrates}

BiophysicalHeaders(seasons, substrates, dropped) ==
    ({Hdr("lucode", "")} \ {Hdr(dropped, "")})
    \cup {Hdr(_FLORAL_RESOURCES_AVAILABLE_PATTERN, n) : n \in seasons}
    \cup {Hdr(_NESTING_SUBSTRATE_PATTERN, n) : n \in substrates}

FarmHeaders(seasons, substrates, dropped) ==
    ({Hdr(_FARM_SEASON_FIELD, ""), Hdr("crop_type", ""),
      Hdr(_HALF_SATURATION_FARM_HEADER, ""),
      Hdr(_MANAGED_POLLINATORS_FIELD, ""),
      Hdr(_CROP_POLLINATOR_DEPENDENCE_FIELD, "")} \ {Hdr(dropped, "")})
    \cup {Hdr(_FARM_FLORAL_RESOURCES_PATTERN, n) : n \in seasons}
    \cup {Hdr(_FARM_NESTING_SUBSTRATE_RE_PATTERN, n) : n \in substrates}

GuildRow(alpha, seasons, substrates) ==
    [alpha |-> alpha, relative_abundance |-> 1,
     foraging_activity |-> [n \in seasons |-> 1],
     nesting_suitability |-> [n \in substrates |-> 1]]

Args(farm, gh, bh, fh, geom, farm_seasons, guild_table, pixel) ==
    [farm_vector_path |-> farm, guild_headers |-> gh,
     biophysical_headers |-> bh, farm_headers |-> fh, farm_geom |-> geom,
     farm_seasons |-> farm_seasons, guild_table |-> guild_table,
     mean_pixel_size |-> pixel]

\* flight distances of the first k species, in non-decreasing order
RECURSIVE AlphaRows(_)
AlphaRows(k) ==
    IF k = 0 THEN {<<>>}
    ELSE {Append(r, v) : r \in AlphaRows(k - 1), v \in AlphaValues}

AlphaAssignments(k) ==
    {r \in AlphaRows(k) : \A i \in 1..(k - 1) : r[i] <= r[i + 1]}

GuildTable(alphas, seasons, substrates) ==
    [sp \in Prefix(SpeciesNames, Len(alphas)) |->
        GuildRow(alphas[CHOOSE i \in 1..Len(alphas) : SpeciesNames[i] = sp],
                 seasons, substrates)]

\* well-formed inputs: the same seasons and substrates in every table, any
\* number of species with any of the flight distances
WellFormedArgs ==
    {Args(farm,
          GuildHeaders(Prefix(SeasonNames, ns), Prefix(SubstrateNames, nn), ""),
          BiophysicalHeaders(Prefix(SeasonNames, ns),
                             Prefix(SubstrateNames, nn), ""),
          IF farm
          THEN FarmHeaders(Prefix(SeasonNames, ns), Prefix(SubstrateNames, nn), "")
          ELSE {},
          IF farm THEN "wkbPolygon" ELSE "",
          IF farm THEN {SeasonNames[1]} ELSE {},
          GuildTable(alphas, Prefix(SeasonNames, ns), Prefix(SubstrateNames, nn)),
          pixel) :
        farm \in BOOLEAN, ns \in 1..MaxSeasons, nn \in 1..MaxSubstrates,
        alphas \in UNION {AlphaAssignments(k) : k \in 1..MaxSpecies},
        pixel \in MeanPixelSizes}

\* the well-formed inputs in which all species fly equally far
EqualAlphaArgs ==
    {a \in WellFormedArgs :
        \A sp \in DOMAIN a.guild_table :
            a.guild_table[sp].alpha = a.guild_table[SpeciesNames[1]].alpha}

SeasonUniverse == Prefix(SeasonNames, MaxSeasons)
SubstrateUniverse == Prefix(SubstrateNames, MaxSubstrates)

\* one defect of the farm vector or of a fixed header
Defects ==
    {[dropped |-> "", geom |-> "wkbPolygon", farm_seasons |-> {}],
     [dropped |-> "", geom |-> "wkbPolygon",
      farm_seasons |-> {SeasonNames[Len(SeasonNames)]}],
     [dropped |-> "", geom |-> "wkbPoint", farm_seasons |-> {SeasonNames[1]}],
     [dropped |-> _ALPHA_HEADER, geom |-> "wkbPolygon",
      farm_seasons |-> {SeasonNames[1]}],
     [dropped |-> "lucode", geom |-> "wkbPolygon",
      farm_seasons |-> {SeasonNames[1]}],
     [dropped |-> _HALF_SATURATION_FARM_HEADER, geom |-> "wkbPolygon",
      farm_seasons |-> {SeasonNames[1]}]}

NoDefect ==
    [dropped |-> "", geom |-> "wkbPolygon", farm_seasons |-> {SeasonNames[1]}]

HeaderArgs(farm, gs, bs, fs, gn, bn, fn, d) ==
    Args(farm,
         GuildHeaders(gs, gn, d.dropped),
         BiophysicalHeaders(bs, bn, d.dropped),
         IF farm THEN FarmHeaders(fs, fn, d.dropped) ELSE {},
         IF farm THEN d.geom ELSE "",
         IF farm THEN d.farm_seasons ELSE {},
         [sp \in {SpeciesNames[1]} |-> GuildRow(20000000, gs, gn)],
         2)

\* any headers: each table names its own seasons and substrates
AnyHeaderArgs ==
    {HeaderArgs(farm, gs, bs, fs, gn, bn, fn, NoDefect) :
        farm \in BOOLEAN,
        gs \in SUBSET SeasonUniverse, bs \in SUBSET SeasonUniverse,
        fs \in SUBSET SeasonUniverse,
        gn \in SUBSET SubstrateUniverse, bn \in SUBSET SubstrateUniverse,
        fn \in SUBSET SubstrateUniverse}

\* a defect, with any seasons in each table and the same substrates in all
DefectiveArgs ==
    {HeaderArgs(farm, gs, bs, fs, SubstrateUniverse, SubstrateUniverse,
                SubstrateUniverse, d) :
        farm \in BOOLEAN,
        gs \in SUBSET SeasonUniverse, bs \in SUBSET SeasonUniverse,
        fs \in SUBSET SeasonUniverse, d \in Defects}

\* the task variables of execute that args make it assign
TaskVariables(a, e) ==
    LET s == _parse_scenario_variables(a)
    IN  IF s.error # "none" THEN {}
        ELSE LET p == Program(a, e, s)
             IN  {p[i].ref.k : i \in {j \in 1..Len(p) : p[j].op = "add_task"}}

InitRest ==
    /\ pc = "start"
    /\ sv = NoScenario
    /\ prog = <<>>
    /\ graph = "none"
    /\ tasks = <<>>
    /\ tstate = <<>>
    /\ files = InputFiles(args)
    /\ tokens = {}
    /\ trace = <<>>
    /\ joined = {}
    /\ invoked = {}
    /\ history = <<>>

Init ==
    /\ px = NoPixel
    /\ vld = NoValidation
    /\ obj = NoObjects
    /\ zone = NoZone
    /\ run = 1
    /\ \/ /\ args \in WellFormedArgs
          /\ env \in [getsource : BOOLEAN, source : {InitialSource}]
          /\ faulty = {}
       \/ /\ args \in EqualAlphaArgs
          /\ env \in [getsource : {TRUE}, source : {InitialSource}]
          /\ faulty \in {{k} : k \in TaskVariables(args, env)}
       \/ /\ args \in AnyHeaderArgs \cup DefectiveArgs
          /\ env \in [getsource : {TRUE}, source : {InitialSource}]
          /\ faulty = {}
    /\ InitRest

Spec == Init /\ [][Next]_vars

----------------------------------------------------------------------------
(* Kernels, validate and the normalisation of the guild table, each        *)
(* applied once to inputs drawn from small sets                            *)

MaxArrays == 3

\* no-data, 0.0, 0.5 and 1.0
PixelValues == {NoData, 0, ONE \div 2, ONE}

Scalars == {0, ONE \div 2, ONE}

AbundanceValues == {0, 1, 3}

ActivityValues == {0, 1}

\* guild tables with any relative abundances and foraging activities, in a
\* scenario without farms
NormalizationArgs ==
    UNION {
        {Args(FALSE,
              GuildHeaders(seasons, Prefix(SubstrateNames, 1), ""),
              BiophysicalHeaders(seasons, Prefix(SubstrateNames, 1), ""),
              {}, "", {}, guild_table, 2) :
            guild_table \in UNION {
                [Prefix(SpeciesNames, k) ->
                    [alpha : {20000000},
                     relative_abundance : AbundanceValues,
                     foraging_activity : [seasons -> ActivityValues],
                     nesting_suitability :
                        {[n \in Prefix(SubstrateNames, 1) |-> 1]}]] :
                k \in 1..MaxSpecies}} :
        seasons \in {Prefix(SeasonNames, ns) : ns \in 1..MaxSeasons}}

\* argument dictionaries of validate
ValidateArgs ==
    [{"workspace_dir"} -> {"missing", "empty", "ok"}]
    \X [{"landcover_raster_path", "farm_vector_path"} ->
            {"missing", "empty", "absent", "unreadable", "ok"}]
    \X [{"guild_table_path", "landcover_biophysical_table_path"} ->
            {"missing", "empty", "absent", "ok"}]

ValidateCalls ==
    {Validation([key \in Range(ValidatedKeys) |->
                    IF key \in DOMAIN t[1] THEN t[1][key]
                    ELSE IF key \in DOMAIN t[2] THEN t[2][key]
                    ELSE t[3][key]],
                limit_to) :
        t \in ValidateArgs, limit_to \in {"None"} \cup Range(ValidatedKeys)}

\* floats a guild table gives: 0/1, 1/2 (also as 2/4), 1/3, 1/1 and two whose
\* first difference is in the thirteenth significant digit
FloatValues ==
    {<<0, 1>>, <<1, 2>>, <<2, 4>>, <<1, 3>>, <<1, 1>>,
     <<3000000, 3000001>>, <<3000001, 3000002>>}

SuitabilityValues == {0, 1}

\* the constructor arguments of _CalculateHabitatNestingIndex for one
\* species, on the landcover substrate rasters
HabitatNestingArguments ==
    UNION {
        [substrate_path_map :
            {[n \in Prefix(SubstrateNames, k) |->
                nesting_substrate_index_path(n)]},
         species_substrate_index_map :
            [Prefix(SubstrateNames, k) -> SuitabilityValues],
         target_habitat_nesting_index_path :
            {habitat_nesting_index_path(species) :
                species \in Prefix(SpeciesNames, 2)}] :
        k \in 1..MaxSubstrates}

\* two objects of one parameterized kernel class, to be constructed
Constructions ==
    {Objects(cls, <<p, q>>) :
        cls \in {"_MultByScalar", "_PollinatorSupplyIndexOp"},
        p \in FloatValues, q \in FloatValues}
    \cup {Objects("_CalculateHabitatNestingIndex", <<p, q>>) :
            p \in HabitatNestingArguments, q \in HabitatNestingArguments}

MaxPixels == 2

\* the attributes of a farm feature of the first season; any of them may
\* hold the value that is also the no-data sentinel of the rasters
FarmFields ==
    [season : {SeasonNames[1]},
     mp : PixelValues,
     h : {0, ONE \div 2},
     fr : [{SeasonNames[1], SeasonNames[2]} -> {NoData, 0, ONE \div 2}],
     n : {ONE}]

\* a pixel inside the feature: covered by the rasterization of the farms
\* or not, with a landcover code or without, and the floral resources the
\* convolution finds around it
FarmPixels ==
    [covered : BOOLEAN, landcover : BOOLEAN,
     floral_resources : {0, ONE \div 2}]

Zones ==
    {Zone(fields, pixels) :
        fields \in FarmFields,
        pixels \in UNION {[1..k -> FarmPixels] : k \in 1..MaxPixels}}

\* the state of execute while a kernel or validate is looked at on its own
NotExecuting(position) ==
    /\ args = <<>>
    /\ pc = position
    /\ sv = NoScenario
    /\ prog = <<>>
    /\ graph = "none"
    /\ tasks = <<>>
    /\ tstate = <<>>
    /\ files = {}
    /\ tokens = {}
    /\ trace = <<>>
    /\ joined = {}
    /\ invoked = {}
    /\ history = <<>>

FunctionInit ==
    /\ run = 1
    /\ faulty = {}
    /\ \/ /\ args \in NormalizationArgs
          /\ env = [getsource |-> TRUE, source |-> InitialSource]
          /\ InitRest
          /\ px = NoPixel
          /\ vld = NoValidation
          /\ obj = NoObjects
          /\ zone = NoZone
       \/ /\ NotExecuting("__init__")
          /\ env \in [getsource : BOOLEAN, source : {InitialSource}]
          /\ px = NoPixel
          /\ vld = NoValidation
          /\ obj \in Constructions
          /\ zone = NoZone
       \/ /\ NotExecuting("farm")
          /\ env = [getsource |-> TRUE, source |-> InitialSource]
          /\ px = NoPixel
          /\ vld = NoValidation
          /\ obj = NoObjects
          /\ zone \in Zones
       \/ /\ NotExecuting("kernel")
          /\ env = [getsource |-> TRUE, source |-> InitialSource]
          /\ vld = NoValidation
          /\ obj = NoObjects
          /\ zone = NoZone
          /\ \/ px \in {Pixel("_MultByScalar", in, par, <<>>, <<>>) :
                          in \in [1..1 -> PixelValues],
                          par \in [1..1 -> Scalars]}
             \/ px \in {Pixel("_PollinatorSupplyIndexOp", in, par, <<>>, <<>>) :
                          in \in [1..2 -> PixelValues],
                          par \in [1..1 -> Scalars]}
             \/ px \in {Pixel("_PollinatorSupplyOp", in, <<>>, <<>>, <<>>) :
                          in \in [1..3 -> PixelValues]}
             \/ px \in {Pixel("_OnFarmPollinatorAbundance", in, <<>>, <<>>,
                              <<>>) :
                          in \in [1..2 -> PixelValues]}
             \/ px \in {Pixel("_PYTOp", in, <<>>, <<>>, <<>>) :
                          in \in [1..2 -> PixelValues]}
             \/ px \in {Pixel("_SumRasters", in, <<>>, <<>>, <<>>) :
                          in \in UNION {[1..k -> PixelValues] :
                                          k \in 1..MaxArrays}}
             \/ \E k \in 1..MaxSubstrates :
                  px \in {Pixel("_CalculateHabitatNestingIndex", <<>>, <<>>,
                                N, ns) :
                            N \in [Prefix(SubstrateNames, k) -> PixelValues],
                            ns \in [Prefix(SubstrateNames, k) -> Scalars]}
       \/ /\ NotExecuting("validate")
          /\ env = [getsource |-> TRUE, source |-> InitialSource]
          /\ px = NoPixel
          /\ vld \in ValidateCalls
          /\ obj = NoObjects
          /\ zone = NoZone

\* raster_calculator hands the pixel of each band to the kernel and writes
\* what the kernel returns
Applied(op, result) ==
    /\ pc = "kernel"
    /\ px.op = op
    /\ ~px.done
    /\ px' = [px EXCEPT !.out = result.out, !.den = result.den, !.done = TRUE]
    /\ UNCHANGED <<vld, obj, zone, args, env, run, pc, sv, prog, graph, tasks,
                   tstate, files, tokens, trace, joined, invoked, faulty,
                   history>>

CalculateHabitatNestingIndex ==
    LET lists == HabitatNestingLists(px.N, px.ns)
    IN  Applied("_CalculateHabitatNestingIndex",
                max_op(lists.substrate_path_list,
                       lists.species_substrate_suitability_index_array))

SumRasters == Applied("_SumRasters", _SumRasters__call__(px.in))

PollinatorSupplyOp ==
    Applied("_PollinatorSupplyOp",
            _PollinatorSupplyOp__call__(px.in[1], px.in[2], px.in[3]))

PollinatorSupplyIndexOp ==
    Applied("_PollinatorSupplyIndexOp",
            _PollinatorSupplyIndexOp__call__(px.par[1], px.in[1], px.in[2]))

MultByScalar ==
    Applied("_MultByScalar", _MultByScalar__call__(px.par[1], px.in[1]))

OnFarmPollinatorAbundance ==
    Applied("_OnFarmPollinatorAbundance",
            _OnFarmPollinatorAbundance__call__(px.in[1], px.in[2]))

PYTOp == Applied("_PYTOp", _PYTOp__call__(px.in[1], px.in[2]))

\* wild_pollinator_task: the bands are the managed pollinators and the
\* total yield that pyt_task wrote
WildPollinatorBands ==
    /\ pc = "kernel"
    /\ px.op = "_PYTOp"
    /\ px.done
    /\ px' = Pixel("_PYWOp", <<px.in[1], px.out>>, <<>>, <<>>, <<>>)
    /\ UNCHANGED <<vld, obj, zone, args, env, run, pc, sv, prog, graph, tasks,
                   tstate, files, tokens, trace, joined, invoked, faulty,
                   history>>

PYWOp == Applied("_PYWOp", _PYWOp__call__(px.in[1], px.in[2]))

\* both objects are constructed in the installation env
Constructed(cls, names) ==
    /\ pc = "__init__"
    /\ obj.cls = cls
    /\ obj.names = <<>>
    /\ obj' = [obj EXCEPT !.names = names]
    /\ UNCHANGED <<px, vld, zone, args, env, run, pc, sv, prog, graph, tasks,
                   tstate, files, tokens, trace, joined, invoked, faulty,
                   history>>

MultByScalarInit ==
    Constructed("_MultByScalar",
                [i \in 1..2 |-> _MultByScalar(env, obj.params[i])])

PollinatorSupplyIndexOpInit ==
    Constructed("_PollinatorSupplyIndexOp",
                [i \in 1..2 |-> _PollinatorSupplyIndexOp(env, obj.params[i])])

CalculateHabitatNestingIndexInit ==
    Constructed("_CalculateHabitatNestingIndex",
                [i \in 1..2 |->
                    LET p == obj.params[i]
                    IN  _CalculateHabitatNestingIndex(
                            env,
                            Sorted(DOMAIN p.substrate_path_map, SubstrateNames),
                            p.substrate_path_map,
                            p.species_substrate_index_map,
                            p.target_habitat_nesting_index_path)])

Validate ==
    /\ pc = "validate"
    /\ ~vld.done
    /\ vld' = [vld EXCEPT !.done = TRUE,
                          !.result = validate(vld.args, vld.limit_to)]
    /\ UNCHANGED <<px, obj, zone, args, env, run, pc, sv, prog, graph, tasks,
                   tstate, files, tokens, trace, joined, invoked, faulty,
                   history>>

\* the raster tasks of the farm scenario write their pixels
FarmRasterTasks ==
    /\ pc = "farm"
    /\ zone.stage = "tasks"
    /\ zone' = [zone EXCEPT
                    !.stage = "zonal",
                    !.rasters = [i \in DOMAIN zone.pixels |->
                                    FarmPixel(zone.fields, zone.pixels[i])]]
    /\ UNCHANGED <<px, vld, obj, args, env, run, pc, sv, prog, graph, tasks,
                   tstate, files, tokens, trace, joined, invoked, faulty,
                   history>>

\* the three calls of pygeoprocessing.zonal_statistics, for the feature
ZonalStatistics ==
    /\ pc = "farm"
    /\ zone.stage = "zonal"
    /\ zone' = [zone EXCEPT
                    !.stage = "aggregate",
                    !.counts =
                        [wild_pollinator_yield_aggregate |->
                            ZonalCount(zone.rasters, "wild_pollinator_yield"),
                         total_farm_results |->
                            ZonalCount(zone.rasters, "total_pollinator_yield"),
                         pollinator_abundance_results |->
                            ZonalCount(zone.rasters,
                                       "total_pollinator_abundance")]]
    /\ UNCHANGED <<px, vld, obj, args, env, run, pc, sv, prog, graph, tasks,
                   tstate, files, tokens, trace, joined, invoked, faulty,
                   history>>

\* aggregate results per farm: the body of the loop for the feature; a
\* division by a count of 0 raises ZeroDivisionError
AggregateResultsPerFarm ==
    /\ pc = "farm"
    /\ zone.stage = "aggregate"
    /\ LET divisors ==
            IF zone.counts.total_farm_results > 0
            THEN {zone.counts.total_farm_results,
                  zone.counts.wild_pollinator_yield_aggregate}
                 \cup (IF zone.counts.wild_pollinator_yield_aggregate = 0
                       THEN {}
                       ELSE {zone.counts.pollinator_abundance_results})
            ELSE {}
       IN  zone' = [zone EXCEPT
                      !.divisors = divisors,
                      !.stage = IF 0 \in divisors THEN "raised" ELSE "done"]
    /\ UNCHANGED <<px, vld, obj, args, env, run, pc, sv, prog, graph, tasks,
                   tstate, files, tokens, trace, joined, invoked, faulty,
                   history>>

FunctionNext ==
    \/ Parse
    \/ CalculateHabitatNestingIndex
    \/ SumRasters
    \/ PollinatorSupplyOp
    \/ PollinatorSupplyIndexOp
    \/ MultByScalar
    \/ OnFarmPollinatorAbundance
    \/ PYTOp
    \/ WildPollinatorBands
    \/ PYWOp
    \/ Validate
    \/ MultByScalarInit
    \/ PollinatorSupplyIndexOpInit
    \/ CalculateHabitatNestingIndexInit
    \/ FarmRasterTasks
    \/ ZonalStatistics
    \/ AggregateResultsPerFarm

FunctionSpec == FunctionInit /\ [][FunctionNext]_vars

----------------------------------------------------------------------------
(* Properties                                                              *)

Parsed == sv.error # "unparsed"

TaskIds == 1..Len(tasks)

\* C1: every registered task T declares, directly or through the
\* dependent_task_list of its dependencies, every other registered task that
\* produces a file T's callable reads.
C1_DeclaredDependencies ==
    \A i \in TaskIds : \A p \in Reads(tasks[i]) :
        \A j \in Producers(tasks, p) \ {i} : j \in Ancestors(tasks, i)

\* C2: no two registered tasks declare the same target path.
C2_SingleWriter ==
    \A i, j \in TaskIds : i # j => tasks[i].target # tasks[j].target

KernelTasks ==
    {i \in TaskIds : tasks[i].func = "utils.exponential_decay_kernel_raster"}

\* C3: there are as many kernel-construction tasks as distinct alpha values
\* among the species handled so far, one per value.
C3_OneKernelTaskPerAlpha ==
    Cardinality(KernelTasks) = Cardinality({tasks[i].scalar : i \in KernelTasks})

RequiredTables == {"guild", "biophysical"}
                   \cup (IF args.farm_vector_path THEN {"farm"} ELSE {})

Discovered(table, what) ==
    IF table = "guild" THEN TablesGuild(args)[what]
    ELSE IF table = "farm" THEN TablesFarm(args)[what]
    ELSE TablesBiophysical(args)[what]

\* some season or substrate is in one required table and not in all of them
Incomplete ==
    \E what \in {"season", "substrate"} :
        \E n \in UNION {Discovered(t, what) : t \in RequiredTables} :
            \E t \in RequiredTables : n \notin Discovered(t, what)

\* C4: parsing raises whenever a season or substrate is in some but not all
\* of the required tables, and raises for that reason only then.
C4_MismatchRaises ==
    Parsed => /\ Incomplete => sv.error # "none"
              /\ sv.error = "mismatch" => Incomplete

C4_Witness == pc = "raised" /\ sv.error = "mismatch" /\ Incomplete

ConfigurationErrors ==
    {"missing_header", "mismatch", "not_polygon", "unknown_farm_season"}

\* C5: a configuration error found by parsing leaves execute before the
\* TaskGraph exists: no task is registered or invoked.
C5_FailsBeforeTaskGraph ==
    sv.error \in ConfigurationErrors =>
        pc = "raised" /\ graph = "none" /\ tasks = <<>> /\ invoked = {}

C5_Witness ==
    pc = "raised" /\ sv.error = "unknown_farm_season" /\ graph = "none"

\* C6: when execute has returned, every registered task is Completed and
\* every declared target exists; otherwise it has not returned.
C6_ReturnMeansAllCompleted ==
    pc = "returned" =>
        \A i \in TaskIds : tstate[i] = "Completed" /\ tasks[i].target \in files

C6_Witness ==
    pc = "returned" /\ Len(tasks) > 1 /\ run = 1 /\ ~args.farm_vector_path

SameInstallation == run > 1 /\ env.source = history[run - 1].source

\* C7: in a second run with the same args, workspace and kernel sources,
\* each add_task presents the identity of the first run and no callable runs.
C7_RerunInvokesNothing ==
    SameInstallation =>
        /\ invoked = {}
        /\ \A i \in TaskIds : tstate[i] = "Completed"
        /\ \A i \in TaskIds : Identity(tasks[i]) = history[run - 1].ids[i]

C7_Witness ==
    /\ SameInstallation /\ pc = "returned"
    /\ Len(tasks) = Len(history[1].ids) /\ Len(tasks) > 1

\* C8: a kernel whose __call__ source changed since the previous run never
\* presents an identity the previous run presented.
C8_IdentityCapturesSource ==
    run > 1 =>
        \A i \in TaskIds :
            LET c == tasks[i].kernel.cls
            IN  (c # "" /\ env.source[c] # history[run - 1].source[c])
                => Identity(tasks[i]) \notin Range(history[run - 1].ids)

Positions(what) == {i \in 1..Len(trace) : trace[i] = what}

\* C9: no add_task follows close(), and a return follows exactly one
\* close(), made after the last add_task and followed by a final join().
C9_CloseThenJoin ==
    /\ \A i \in Positions("close") : \A j \in Positions("add_task") : j < i
    /\ pc = "returned" =>
        /\ Cardinality(Positions("close")) = 1
        /\ trace[Len(trace)] = "join"
        /\ trace[Len(trace) - 1] = "close"

C9_Witness ==
    pc = "returned" /\ args.farm_vector_path /\ Positions("close") # {}

\* C10: when the calling thread is about to read files itself, a join has
\* returned for every registered task that produces one of them.
C10_ReadsAfterJoin ==
    AtStmt("call") =>
        \A p \in Stmt.reads : Producers(tasks, p) \subseteq joined

C10_Witness ==
    /\ Positions("pygeoprocessing.zonal_statistics") # {}
    /\ AtStmt("call")
    /\ \E p \in Stmt.reads : Producers(tasks, p) # {}

\* C11: a registered task with a Failed task among the tasks it lists in
\* dependent_task_list, directly or transitively, is Failed and its callable
\* was not invoked.
C11_FailedDependencySkipsDependents ==
    \A i \in TaskIds :
        (\E j \in Ancestors(tasks, i) : tstate[j] = "Failed")
            => tstate[i] = "Failed" /\ i \notin invoked

\* the farm pollinator sum failed when it ran; pyt_task and, through it,
\* wild_pollinator_task are Failed and were never invoked
C11_Witness ==
    \E i, j, k \in TaskIds :
        /\ tasks[j].label.k = "farm_pollinator_task"
        /\ tasks[k].label.k = "pyt_task"
        /\ tasks[i].label.k = "wild_pollinator_task"
        /\ tstate[j] = "Failed" /\ j \in invoked
        /\ tstate[k] = "Failed" /\ k \notin invoked
        /\ tstate[i] = "Failed" /\ i \notin invoked
        /\ j \in Ancestors(tasks, i)

\* the quotients q[k] = <<numerator, denominator>> over the keys add up to 1
SumsToOne(q, keys) ==
    /\ \A i \in 1..Len(keys) :
            q[keys[i]][2] # 0 /\ q[keys[i]][2] = q[keys[1]][2]
    /\ SumOver([k \in Range(keys) |-> q[k][1]], keys, 1) = q[keys[1]][2]

\* C12: the species_abundance values of an accepted guild table add up to 1
\* over the species.
C12_AbundanceSumsToOne ==
    (Parsed /\ sv.error = "none")
        => SumsToOne(sv.species_abundance, sv.species_list)

\* C13: for every species of an accepted guild table, its
\* species_foraging_activity values add up to 1 over the seasons.
C13_ForagingActivitySumsToOne ==
    (Parsed /\ sv.error = "none")
        => \A species \in Range(sv.species_list) :
              SumsToOne([season \in Range(sv.season_list) |->
                            sv.species_foraging_activity[<<species, season>>]],
                        sv.season_list)

\* the kernels that work pixel by pixel on their input arrays
PerPixelKernels ==
    {"_MultByScalar", "_PollinatorSupplyIndexOp", "_PollinatorSupplyOp",
     "_OnFarmPollinatorAbundance", "_PYTOp", "_PYWOp"}

\* C14: a per-pixel kernel with no-data in one of its input arrays at a pixel
\* writes no-data at that pixel.
C14_NoDataPropagates ==
    (/\ px.done
     /\ px.op \in PerPixelKernels
     /\ \E i \in 1..Len(px.in) : px.in[i] = NoData)
        => px.out = NoData

\* C15: a pixel written by _PYTOp or by _PYWOp that is not no-data lies in
\* [0, 1], for managed pollinators in [0, 1] and farm pollinators that are
\* no-data or in [0, 1].
C15_YieldWithinUnitInterval ==
    (px.done /\ px.op \in {"_PYTOp", "_PYWOp"} /\ px.out # NoData)
        => (0 <= px.out /\ px.out <= ONE)

Min(a, b) == IF a <= b THEN a ELSE b

Max(a, b) == IF a >= b THEN a ELSE b

\* C16: where the managed pollinators are not no-data, _PYTOp writes
\* min(managed + FP, 1) and _PYWOp writes max(0, PYT - managed).
C16_YieldFormulas ==
    (px.done /\ px.op \in {"_PYTOp", "_PYWOp"} /\ px.in[1] # NoData)
        => /\ px.op = "_PYTOp" => px.out = Min(px.in[1] + px.in[2], ONE)
           /\ px.op = "_PYWOp" => px.out = Max(0, px.in[2] - px.in[1])

\* managed 0.5 on a pixel whose total yield was cut to 1: the wild yield is
\* the other 0.5
C16_Witness ==
    /\ px.done /\ px.op = "_PYWOp"
    /\ px.in[1] = ONE \div 2
    /\ px.in[2] = ONE
    /\ px.out = ONE \div 2

\* the sum of seq over the positions in S
RECURSIVE SumAt(_, _)
SumAt(seq, S) ==
    IF S = {} THEN 0
    ELSE LET i == CHOOSE j \in S : TRUE
         IN  seq[i] + SumAt(seq, S \ {i})

\* C17: _SumRasters writes the sum of the inputs that are not no-data at the
\* pixel, and writes no-data exactly when all of them are no-data.
C17_SumIgnoresNoData ==
    (px.done /\ px.op = "_SumRasters")
        => LET valid == {i \in 1..Len(px.in) : px.in[i] # NoData}
           IN  /\ px.out = NoData <=> valid = {}
               /\ valid # {} => px.out = SumAt(px.in, valid)

\* three inputs, one of them no-data, the others 0.5 and 1.0
C17_Witness ==
    /\ px.done /\ px.op = "_SumRasters"
    /\ Len(px.in) = MaxArrays
    /\ \E i \in 1..Len(px.in) : px.in[i] = NoData
    /\ \E i \in 1..Len(px.in) : px.in[i] = ONE
    /\ px.out = ONE + ONE \div 2

\* C18: the habitat nesting index of a pixel is the largest N(x, n) * ns(s, n)
\* over the substrates n, each raster times the scalar of its own substrate,
\* and is no-data where the first substrate in sorted order is no-data.
C18_HabitatNestingIndex ==
    (px.done /\ px.op = "_CalculateHabitatNestingIndex")
        => LET products == {Mul(px.N[n], px.ns[n]) : n \in DOMAIN px.N}
               reference == Sorted(DOMAIN px.N, SubstrateNames)[1]
           IN  IF px.N[reference] = NoData THEN px.out = NoData
               ELSE /\ px.out \in products
                    /\ \A v \in products : v <= px.out

\* two substrates with different rasters and different scalars, where
\* pairing them the other way round gives another maximum
C18_Witness ==
    /\ px.done /\ px.op = "_CalculateHabitatNestingIndex"
    /\ \E a, b \in DOMAIN px.N :
          /\ a # b
          /\ px.N[a] = ONE /\ px.ns[a] = ONE \div 2
          /\ px.N[b] = ONE \div 2 /\ px.ns[b] = ONE
    /\ px.out = ONE \div 2

\* C19: _PollinatorSupplyOp writes 0 where foraged flowers is valid and the
\* floral resources are 0, and never divides by floral resources of 0.
C19_ZeroFloralResources ==
    (px.done /\ px.op = "_PollinatorSupplyOp")
        => /\ 0 \notin px.den
           /\ (px.in[1] # NoData /\ px.in[2] = 0) => px.out = 0

C19_Witness ==
    /\ px.done /\ px.op = "_PollinatorSupplyOp"
    /\ px.in[1] = ONE /\ px.in[2] = 0 /\ px.in[3] = ONE
    /\ px.out = 0 /\ px.den = {}

\* C20: validate of args without the farm_vector_path key, every other key
\* naming a readable file, returns an empty list and does not raise.
C20_ValidateWithoutFarmVector ==
    (/\ vld.done
     /\ vld.limit_to = "None"
     /\ vld.args["farm_vector_path"] = "missing"
     /\ \A key \in DOMAIN vld.args \ {"farm_vector_path"} :
            vld.args[key] = "ok")
        => vld.result = Outcome("", <<>>)

\* C21: with a farm vector, a farm feature whose season is not a season of
\* the table headers makes parsing raise; after parsing succeeds the season
\* of every farm feature is in season_list.
C21_FarmSeasonsAreKnown ==
    (Parsed /\ args.farm_vector_path)
        => /\ ~(args.farm_seasons
                    \subseteq Captured(_FORAGING_ACTIVITY_RE_PATTERN,
                                       args.guild_headers))
                => sv.error # "none" /\ pc = "raised"
           /\ sv.error = "none"
                => args.farm_seasons \subseteq Range(sv.season_list)

\* every table names the same seasons, a farm feature names another one, and
\* parsing raised for that feature's season
C21_Witness ==
    /\ pc = "raised"
    /\ args.farm_vector_path
    /\ sv.error = "unknown_farm_season"
    /\ sv.names = args.farm_seasons
    /\ sv.names # {}
    /\ tasks = <<>>

\* C22: the bands of every pollinator supply task are, in this order, the
\* floral resources raster FR(x, s), which _PollinatorSupplyIndexOp receives
\* as floral_resources_array and tests for no-data, and the habitat nesting
\* raster HN(x, s).
C22_SupplyBandOrder ==
    \A i \in TaskIds :
        tasks[i].label.k = "pollinator_supply_task"
            => tasks[i].inputs
                 = <<floral_resources_index_path(tasks[i].label.a),
                     habitat_nesting_index_path(tasks[i].label.a)>>

\* the registered tasks that rasterize the farm vector onto a base raster for
\* the variable kind k
FarmRasterizations(k) ==
    {j \in TaskIds : /\ tasks[j].label.k = k
                     /\ tasks[j].func = "_rasterize_vector_onto_base"}

\* C23: with a farm vector, a habitat nesting task reads the farm substrate
\* rasters and lists every farm substrate rasterization; a foraged flowers
\* task reads the farm floral raster of its season and lists the task that
\* rasterized it; each of these rasterizations lists the reclassification
\* that wrote its base raster and the farm reprojection.
C23_FarmOverridesWired ==
    (Parsed /\ sv.error = "none" /\ args.farm_vector_path)
        => \A i \in TaskIds :
            /\ tasks[i].label.k = "habitat_nesting_tasks"
                => /\ Reads(tasks[i])
                        = {farm_nesting_substrate_index_path(n) :
                             n \in Range(sv.substrate_list)}
                   /\ \A p \in Reads(tasks[i]) :
                        \E j \in FarmRasterizations(
                                    "farm_substrate_rasterize_task_list") :
                            /\ tasks[j].target = p
                            /\ tasks[j].label \in tasks[i].deps
            /\ tasks[i].label.k = "foraged_flowers_index_task_map"
                => /\ tasks[i].inputs
                        = <<farm_relative_floral_abundance_index_path(
                                tasks[i].label.b)>>
                   /\ \E j \in FarmRasterizations(
                                    "relative_floral_abudance_task") :
                        /\ tasks[j].target = tasks[i].inputs[1]
                        /\ tasks[j].label \in tasks[i].deps
            /\ i \in FarmRasterizations("farm_substrate_rasterize_task_list")
                     \cup FarmRasterizations("relative_floral_abudance_task")
                => /\ ReprojectFarmLabel \in tasks[i].deps
                   /\ \E j \in Producers(tasks, tasks[i].inputs[1]) :
                        /\ tasks[j].func = "pygeoprocessing.reclassify_raster"
                        /\ tasks[j].label \in tasks[i].deps

\* a run with farms and two substrates in which a habitat nesting task and a
\* foraged flowers task were registered and ran
C23_Witness ==
    /\ args.farm_vector_path
    /\ Len(sv.substrate_list) = MaxSubstrates
    /\ \E i, j \in TaskIds :
          /\ tasks[i].label.k = "habitat_nesting_tasks"
          /\ tasks[j].label.k = "foraged_flowers_index_task_map"
          /\ tstate[i] = "Completed" /\ i \in invoked
          /\ tstate[j] = "Completed" /\ j \in invoked

\* the paths the statement at hand writes or removes
Touched == Stmt.writes \cup Stmt.removes

\* C24: no callable that ran wrote the target of another task whose callable
\* ran, and no direct call of execute writes or removes the target of a
\* registered task.
C24_FrameEffect ==
    /\ \A i, j \in TaskIds :
          (i # j /\ i \in invoked /\ j \in invoked
                 /\ tstate[i] = "Completed" /\ tstate[j] = "Completed")
              => tasks[i].target # tasks[j].target
    /\ AtStmt("call")
          => \A i \in TaskIds : tasks[i].target \notin Touched

\* the greatest common divisor, by Euclid's algorithm
RECURSIVE Gcd(_, _)
Gcd(a, b) == IF b = 0 THEN a ELSE Gcd(b, a % b)

\* two constructor arguments are the same value: the same number for a
\* scalar, the same maps and target for _CalculateHabitatNestingIndex
SameValue(cls, p, q) ==
    IF cls = "_CalculateHabitatNestingIndex" THEN p = q
    ELSE <<p[1] \div Gcd(p[1], p[2]), p[2] \div Gcd(p[1], p[2])>>
            = <<q[1] \div Gcd(q[1], q[2]), q[2] \div Gcd(q[1], q[2])>>

\* C25: two objects of a parameterized kernel class constructed in one
\* installation have the same __name__ exactly when their parameter values
\* are the same.
C25_NameTellsParametersApart ==
    obj.names # <<>>
        => ((obj.names[1] = obj.names[2])
                <=> SameValue(obj.cls, obj.params[1], obj.params[2]))

\* C26: when a task is registered, every task its dependent_task_list names
\* and every task that declares a path it reads as target was registered
\* before it; with zero workers the tasks run in this order.
C26_RegistrationOrder ==
    \A i \in TaskIds :
        /\ \A d \in tasks[i].deps : \E j \in 1..(i - 1) : tasks[j].label = d
        /\ \A p \in Reads(tasks[i]) : \A j \in Producers(tasks, p) : j < i

\* C27: two kernel tasks of one run that were given different alphas have
\* different kernel paths.
C27_KernelPathInjective ==
    \A i, j \in KernelTasks :
        tasks[i].scalar # tasks[j].scalar
            => tasks[i].target # tasks[j].target

\* C28: when the aggregation of a farm feature divides, no count it divides
\* by is 0: a feature with a total yield count above 0 has a wild yield count
\* and a total pollinator abundance count of its season above 0.
C28_CountsAreNonZero ==
    /\ zone.stage \in {"aggregate", "done", "raised"}
          => (zone.counts.total_farm_results > 0
                => /\ zone.counts.wild_pollinator_yield_aggregate > 0
                   /\ zone.counts.pollinator_abundance_results > 0)
    /\ 0 \notin zone.divisors

\* C29: where both the half saturation and the total pollinator abundance
\* are valid values of [0, 1], _OnFarmPollinatorAbundance divides by a
\* denominator that is not 0 and writes a defined value.
C29_DenominatorIsNonZero ==
    (/\ px.op = "_OnFarmPollinatorAbundance"
     /\ px.done
     /\ \A i \in 1..2 : px.in[i] # NoData /\ 0 <= px.in[i] /\ px.in[i] <= ONE)
        => 0 \notin px.den /\ px.out # NaN

\* C30: once the TaskGraph exists, execute is left, by return or by an
\* exception, only after task_graph.close() was called.
C30_ClosedOnEveryExit ==
    (pc \in {"returned", "raised"} /\ graph # "none")
        => graph = "closed" /\ Positions("close") # {}

====
